---------------------------- MODULE Spec2Model ----------------------------
(***************************************************************************)
(* A model of clocktower (github.com/n0ot/clocktower): the Minute and its  *)
(* WWV time code, the per-second audio composer TimeAudioSource, the sine  *)
(* oscillator and the voice announcer it mixes from, and the channel of    *)
(* Minutes it pulls from.                                                  *)
(*                                                                         *)
(* Representation.                                                         *)
(*  - A time.Duration is counted in milliseconds (Go counts nanoseconds):  *)
(*    every duration the code names is a whole number of milliseconds, and *)
(*    60 s in nanoseconds times a sample rate does not fit TLC's integers. *)
(*    Nanosecond() of a Minute is therefore a number in 0..999.            *)
(*  - A fade length (a float64 number of seconds) is counted in units of   *)
(*    1/10000 s.                                                           *)
(*  - A linear gain 10^(dBFS/20) is represented by its dBFS argument; the  *)
(*    map is strictly increasing, so comparisons of gains are kept.        *)
(*  - A float32 sample is the set of the contributions mixed into it (the  *)
(*    code adds them); the empty set is 0.0.  A sine's phase is not kept.  *)
(***************************************************************************)
EXTENDS Integers, Sequences, FiniteSets, TLC

(***************************************************************************)
(* Bounds of the model.                                                    *)
(***************************************************************************)
\* samples per second handed to NewTimeAudioSource (44100 in cmd/)
SampleRate == 4
\* the longest buffer handed to TimeAudioSource.Read
MaxBuf == 2
\* |DUT1| of the Minutes fed to the composer ranges over 0..MaxDUT1
MaxDUT1 == 9
\* samples in each voice clip loaded by NewWaveFileAnnouncer
ClipLen == 1
\* Read calls counted by the throughput meter
MaxCalls == 4
\* Read calls made after a Read has returned the end-of-stream error
MaxAfterEOS == 2

(***************************************************************************)
(* Units.                                                                  *)
(***************************************************************************)
Millisecond == 1
Second == 1000
\* fade lengths are in 1/FadeUnit seconds
FadeUnit == 10000

Min(a, b) == IF a <= b THEN a ELSE b
Abs(a) == IF a < 0 THEN -a ELSE a

(***************************************************************************)
(* bcd.go: bit symbols                                                     *)
(***************************************************************************)
bit0 == 0
bit1 == 1
bitMarker == 2
bitNone == 3

(***************************************************************************)
(* Calendar (package time, UTC).                                           *)
(***************************************************************************)
IsLeapYear(y) == (y % 4 = 0) /\ ((y % 100 # 0) \/ (y % 400 = 0))

DaysInMonth(y, m) ==
    IF m = 2 THEN (IF IsLeapYear(y) THEN 29 ELSE 28)
    ELSE IF m \in {4, 6, 9, 11} THEN 30 ELSE 31

\* time.Date(year, month+1, 0, ...).Day(): day 0 of the next month is
\* normalised by package time to the last day of `month`.
lastDayInMonth(year, month) == DaysInMonth(year, month)

RECURSIVE DaysBeforeMonth(_, _)
DaysBeforeMonth(y, m) ==
    IF m = 1 THEN 0 ELSE DaysBeforeMonth(y, m - 1) + DaysInMonth(y, m - 1)

\* the day of the year counted from 0 (a seeded fault)
YearDay_FromZero(t) == DaysBeforeMonth(t.year, t.month) + t.day - 1

\* Time.YearDay(): 1-based day of the year
YearDay(t) == DaysBeforeMonth(t.year, t.month) + t.day

\* days from 0001-01-01 to the given date
DaysSinceEpoch(y, m, d) ==
    LET py == y - 1
    IN  365 * py + (py \div 4) - (py \div 100) + (py \div 400)
        + DaysBeforeMonth(y, m) + (d - 1)

\* Time.Weekday(): 0 = Sunday.  0001-01-01 was a Monday.
Weekday(y, m, d) == (DaysSinceEpoch(y, m, d) + 1) % 7

\* day of the month of the n-th Sunday of month m
NthSunday(y, m, n) ==
    LET first == 1 + ((7 - Weekday(y, m, 1)) % 7)
    IN  first + 7 * (n - 1)

\* A time.Time in UTC.
MkTime(y, mo, d, h, mi, s, ns) ==
    [year |-> y, month |-> mo, day |-> d, hour |-> h, minute |-> mi,
     second |-> s, nsec |-> ns]

\* the zero time.Time: January 1, year 1, 00:00:00 UTC
ZeroTime == MkTime(1, 1, 1, 0, 0, 0, 0)

\* t.Add(time.Minute)
AddMinute(t) ==
    IF t.minute < 59 THEN [t EXCEPT !.minute = t.minute + 1]
    ELSE IF t.hour < 23 THEN [t EXCEPT !.minute = 0, !.hour = t.hour + 1]
    ELSE IF t.day < DaysInMonth(t.year, t.month)
         THEN [t EXCEPT !.minute = 0, !.hour = 0, !.day = t.day + 1]
    ELSE IF t.month < 12
         THEN [t EXCEPT !.minute = 0, !.hour = 0, !.day = 1, !.month = t.month + 1]
    ELSE [t EXCEPT !.minute = 0, !.hour = 0, !.day = 1, !.month = 1,
                   !.year = t.year + 1]

\* isDST at 00:00 UTC of the given date: the zone name of America/New_York
\* is "EDT" from the second Sunday of March, 07:00 UTC, to the first Sunday
\* of November, 06:00 UTC (the rule of the tz database since 2007).  At
\* 00:00 UTC the switch of that day has not happened yet.
isDSTAtMidnight(y, m, d) ==
    \/ (m > 3 /\ m < 11)
    \/ (m = 3 /\ d > NthSunday(y, 3, 2))
    \/ (m = 11 /\ d <= NthSunday(y, 11, 1))


(***************************************************************************)
(* bcd.go: the BCD encoder                                                 *)
(***************************************************************************)
RECURSIVE SumSeq(_)
SumSeq(q) == IF q = <<>> THEN 0 ELSE Head(q) + SumSeq(Tail(q))

\* newFieldDef: maxVal is the sum of the weights
newFieldDef(label, weights) ==
    [label |-> label, weights |-> weights, maxVal |-> SumSeq(weights)]

\* the weight check with lastW forgotten at a zero weight (a seeded fault)
RECURSIVE WeightsSorted_ZeroResets(_, _)
WeightsSorted_ZeroResets(weights, lastW) ==
    IF weights = <<>> THEN TRUE
    ELSE IF Head(weights) = 0 THEN WeightsSorted_ZeroResets(Tail(weights), 0)
    ELSE IF Head(weights) < lastW THEN FALSE
    ELSE WeightsSorted_ZeroResets(Tail(weights), Head(weights))

\* the weight check of newBCDEncoder for one field: zero weights are
\* skipped, a non-zero weight below the last non-zero one is refused
RECURSIVE WeightsSorted(_, _)
WeightsSorted(weights, lastW) ==
    IF weights = <<>> THEN TRUE
    ELSE IF Head(weights) = 0 THEN WeightsSorted(Tail(weights), lastW)
    ELSE IF Head(weights) < lastW THEN FALSE
    ELSE WeightsSorted(Tail(weights), Head(weights))

\* outSize counting the fields, not their weights (a seeded fault)
OutSize_CountsFields(fieldDefs) == Len(fieldDefs)

\* outSize of newBCDEncoder: the sum of len(weights)
RECURSIVE OutSize(_)
OutSize(fieldDefs) ==
    IF fieldDefs = <<>> THEN 0
    ELSE Len(Head(fieldDefs).weights) + OutSize(Tail(fieldDefs))

newBCDEncoder(fieldDefs) ==
    IF \A i \in 1..Len(fieldDefs) : WeightsSorted(fieldDefs[i].weights, 0)
    THEN [err |-> FALSE, fieldDefs |-> fieldDefs, outSize |-> OutSize(fieldDefs)]
    ELSE [err |-> TRUE, fieldDefs |-> <<>>, outSize |-> 0]

\* the inner loop of encode for one field, j = fSize-1 down to 0: the value
\* left in v when the loop reaches weight j (1-based), after the greedy
\* subtraction of the weights above it; zero weights are skipped
RECURSIVE Remaining(_, _, _)
Remaining(weights, v, j) ==
    IF j = Len(weights) THEN v
    ELSE LET above == Remaining(weights, v, j + 1)
         IN  IF weights[j + 1] # 0 /\ above >= weights[j + 1]
             THEN above - weights[j + 1]
             ELSE above

\* seek when the outer loop of encode reaches field i
RECURSIVE SeekOf(_, _)
SeekOf(fieldDefs, i) ==
    IF i = 1 THEN 0
    ELSE SeekOf(fieldDefs, i - 1) + Len(fieldDefs[i - 1].weights)

\* the outer loop without its test for a negative value (a seeded fault)
FirstRefused_NoNegative(b, vals) ==
    LET bad == { i \in 1..Len(vals) : vals[i] > b.fieldDefs[i].maxVal }
    IN  IF bad = {} THEN Len(vals) + 1
        ELSE CHOOSE i \in bad : \A k \in bad : i <= k

\* the first field at which the outer loop of encode returns an error,
\* Len(vals) + 1 if there is none
FirstRefused(b, vals) ==
    LET bad == { i \in 1..Len(vals) :
                   vals[i] < 0 \/ vals[i] > b.fieldDefs[i].maxVal }
    IN  IF bad = {} THEN Len(vals) + 1
        ELSE CHOOSE i \in bad : \A k \in bad : i <= k

\* encode testing every value before it writes the first (a seeded fault)
EncodeFrom_ChecksFirst(b, outBuff, vals) ==
    LET stop == FirstRefused(b, vals)
        seek == [i \in 1..Len(b.fieldDefs) |-> SeekOf(b.fieldDefs, i)]
        fieldAt == [k \in 1..Len(outBuff) |->
                      LET covering == { i \in 1..Len(b.fieldDefs) :
                                          /\ seek[i] < k
                                          /\ k <= seek[i] + Len(b.fieldDefs[i].weights) }
                      IN  IF covering = {} THEN 0 ELSE CHOOSE i \in covering : TRUE]
    IN  [err |-> stop <= Len(vals),
         outBuff |->
           [k \in 1..Len(outBuff) |->
              LET i == fieldAt[k]
              IN  IF i = 0 \/ stop <= Len(vals) THEN outBuff[k]
                  ELSE LET weights == b.fieldDefs[i].weights
                           j == k - seek[i]
                       IN  IF weights[j] = 0 THEN outBuff[k]
                           ELSE IF Remaining(weights, vals[i], j) >= weights[j]
                           THEN bit1 ELSE bit0]]

\* the loops of encode writing bit0 at a zero weight (a seeded fault)
EncodeFrom_WritesZeroWeights(b, outBuff, vals) ==
    LET stop == FirstRefused(b, vals)
        seek == [i \in 1..Len(b.fieldDefs) |-> SeekOf(b.fieldDefs, i)]
        fieldAt == [k \in 1..Len(outBuff) |->
                      LET covering == { i \in 1..Len(b.fieldDefs) :
                                          /\ seek[i] < k
                                          /\ k <= seek[i] + Len(b.fieldDefs[i].weights) }
                      IN  IF covering = {} THEN 0 ELSE CHOOSE i \in covering : TRUE]
    IN  [err |-> stop <= Len(vals),
         outBuff |->
           [k \in 1..Len(outBuff) |->
              LET i == fieldAt[k]
              IN  IF i = 0 \/ i >= stop THEN outBuff[k]
                  ELSE LET weights == b.fieldDefs[i].weights
                           j == k - seek[i]
                       IN  IF weights[j] # 0
                              /\ Remaining(weights, vals[i], j) >= weights[j]
                           THEN bit1 ELSE bit0]]

\* the loops of encode: the fields before the first refused one are
\* written at outBuff[seek+j] (bit1 where the weight is subtracted, bit0
\* where it is not, nothing at a zero weight); an error leaves them written
EncodeFrom(b, outBuff, vals) ==
    LET stop == FirstRefused(b, vals)
        seek == [i \in 1..Len(b.fieldDefs) |-> SeekOf(b.fieldDefs, i)]
        \* the field whose weights cover outBuff[k], 0 if none
        fieldAt == [k \in 1..Len(outBuff) |->
                      LET covering == { i \in 1..Len(b.fieldDefs) :
                                          /\ seek[i] < k
                                          /\ k <= seek[i] + Len(b.fieldDefs[i].weights) }
                      IN  IF covering = {} THEN 0 ELSE CHOOSE i \in covering : TRUE]
    IN  [err |-> stop <= Len(vals),
         outBuff |->
           [k \in 1..Len(outBuff) |->
              LET i == fieldAt[k]
              IN  IF i = 0 \/ i >= stop THEN outBuff[k]
                  ELSE LET weights == b.fieldDefs[i].weights
                           j == k - seek[i]
                       IN  IF weights[j] = 0 THEN outBuff[k]
                           ELSE IF Remaining(weights, vals[i], j) >= weights[j]
                           THEN bit1 ELSE bit0]]

\* bCDEncoder.encode; outBuff[k+1] is the code's outBuff[k]
encode(b, outBuff, vals) ==
    IF Len(vals) # Len(b.fieldDefs) THEN [err |-> TRUE, outBuff |-> outBuff]
    ELSE IF b.outSize > Len(outBuff) THEN [err |-> TRUE, outBuff |-> outBuff]
    ELSE EncodeFrom(b, outBuff, vals)

(***************************************************************************)
(* The Minute and its time code.                                           *)
(***************************************************************************)
\* the schema built by init()
minuteFieldDefs == <<
    newFieldDef("bit0: minute-marker", <<0>>),
    newFieldDef("bit1: unused", <<0>>),
    newFieldDef("DST1", <<1>>),
    newFieldDef("LSW", <<1>>),
    newFieldDef("year1s", <<1, 2, 4, 8>>),
    newFieldDef("bit8: unused", <<0>>),
    newFieldDef("P1", <<0>>),
    newFieldDef("minute1s", <<1, 2, 4, 8, 0>>),
    newFieldDef("minute10s", <<10, 20, 40>>),
    newFieldDef("bit18: unused", <<0>>),
    newFieldDef("P2", <<0>>),
    newFieldDef("hour1s", <<1, 2, 4, 8, 0>>),
    newFieldDef("hour10s", <<10, 20>>),
    newFieldDef("bit27-28: unused", <<0, 0>>),
    newFieldDef("P3", <<0>>),
    newFieldDef("dayOfYear1s", <<1, 2, 4, 8, 0>>),
    newFieldDef("dayOfYear10s", <<10, 20, 40, 80>>),
    newFieldDef("P4", <<0>>),
    newFieldDef("dayOfYear100s", <<100, 200>>),
    newFieldDef("bit42-48: unused", <<0, 0, 0, 0, 0, 0, 0>>),
    newFieldDef("P5", <<0>>),
    newFieldDef("DUT1Sign", <<1>>),
    newFieldDef("year10s", <<10, 20, 40, 80>>),
    newFieldDef("DST2", <<1>>),
    newFieldDef("DUT1Magnitude", <<1, 2, 4>>),
    newFieldDef("P6", <<0>>) >>

minuteEncoder == newBCDEncoder(minuteFieldDefs)

\* the length of Minute.bits
BitsLen == 61

\* lastSecond with the test of the day left out (a seeded fault)
lastSecond_AnyDay(t, lsw) ==
    IF ~lsw THEN 59
    ELSE IF t.hour # 23 \/ t.minute # 59 THEN 59
    ELSE 60

\* lastSecond(t, lsw)
lastSecond(t, lsw) ==
    IF ~lsw THEN 59
    ELSE IF t.hour # 23 \/ t.minute # 59 THEN 59
    ELSE IF t.day # lastDayInMonth(t.year, t.month) THEN 59
    ELSE 60

\* the zero value Minute{}
ZeroMinute ==
    [Time |-> ZeroTime, bits |-> [k \in 1..BitsLen |-> bit0], lastSecond |-> 0,
     lsw |-> FALSE, dut1 |-> 0]

\* the markers P1-P6 of NewMinute
markers == {9, 19, 29, 39, 49, 59}

\* the magnitude limited to 8 as in writeTick (a seeded fault)
dut1Magnitude_UpTo8(dut1) ==
    LET mag == IF dut1 < 0 THEN dut1 * (-1) ELSE dut1
    IN  IF mag > 8 THEN 8 ELSE mag

\* dut1Magnitude of NewMinute: only 3 bits for this value
dut1Magnitude(dut1) ==
    LET mag == IF dut1 < 0 THEN dut1 * (-1) ELSE dut1
    IN  IF mag > 7 THEN 7 ELSE mag

\* NewMinute(t, lsw, dut1): the Minute and whether an error is returned
\* (bits[k+1] is the code's bits[k]; t is already in UTC)
NewMinute(t, lsw, dut1) ==
    LET seeded == [k \in 1..BitsLen |->
                      IF k - 1 = 0 THEN bitNone
                      ELSE IF (k - 1) \in markers THEN bitMarker ELSE bit0]
        tomorrow == AddMinute([t EXCEPT !.hour = 23, !.minute = 59])
        dst1 == IF isDSTAtMidnight(t.year, t.month, t.day) THEN 1 ELSE 0
        dst2 == IF isDSTAtMidnight(tomorrow.year, tomorrow.month, tomorrow.day)
                THEN 1 ELSE 0
        year1s == t.year % 10
        year10s == (t.year % 100) - year1s
        minute1s == t.minute % 10
        minute10s == (t.minute % 100) - minute1s
        hour1s == t.hour % 10
        hour10s == (t.hour % 100) - hour1s
        dayOfYear1s == YearDay(t) % 10
        dayOfYear10s == (YearDay(t) % 100) - dayOfYear1s
        dayOfYear100s == (YearDay(t) % 1000) - dayOfYear1s - dayOfYear10s
        dut1Sign == IF dut1 < 0 THEN 0 ELSE 1
        r == encode(minuteEncoder, seeded,
                    << 0, 0, dst1, lsw, year1s, 0, 0,
                       minute1s, minute10s, 0, 0,
                       hour1s, hour10s, 0, 0,
                       dayOfYear1s, dayOfYear10s, 0,
                       dayOfYear100s, 0, 0,
                       dut1Sign, year10s, dst2, dut1Magnitude(dut1), 0 >>)
        min == [Time |-> t, bits |-> r.outBuff, lastSecond |-> 0,
                lsw |-> (lsw = 1), dut1 |-> dut1]
    IN  IF r.err THEN [err |-> TRUE, min |-> min]
        ELSE [err |-> FALSE,
              min |-> [min EXCEPT !.lastSecond = lastSecond(t, min.lsw)]]

(***************************************************************************)
(* audio/synth.go: the amplitude-controlled source and the sine oscillator *)
(***************************************************************************)
\* the linear gain 0.0 (below every dBFS level), as Sine.Read resets the
\* fade bottoms to and NewSine starts them at
LinearZero == -1000000

\* dBFSToLinear: a gain is kept as its dBFS argument
dBFSToLinear(dBFS) == dBFS

\* NewSine(freq, amplitudeDB, sampleRate)
NewSine(freq, amplitudeDB, sampleRate) ==
    [amplitude |-> dBFSToLinear(amplitudeDB), freq |-> freq,
     iFade |-> 0, oFade |-> 0,
     iFadeBottom |-> LinearZero, oFadeBottom |-> LinearZero,
     sampleRate |-> sampleRate]

\* AbstractSource.SetAmpDBFS on a source record
SetAmpDBFS(src, ampDBFS) == [src EXCEPT !.amplitude = dBFSToLinear(ampDBFS)]

\* Sine.SetFreq
SetFreq(sine, freq) == [sine EXCEPT !.freq = freq]

\* Sine.SetIFade(iFade, iFadeBottom): int(iFade * float64(sampleRate))
SetIFade(sine, iFade, iFadeBottom) ==
    [sine EXCEPT !.iFade = (iFade * sine.sampleRate) \div FadeUnit,
                 !.iFadeBottom = dBFSToLinear(iFadeBottom)]

\* Sine.SetOFade(oFade, oFadeBottom)
SetOFade(sine, oFade, oFadeBottom) ==
    [sine EXCEPT !.oFade = (oFade * sine.sampleRate) \div FadeUnit,
                 !.oFadeBottom = dBFSToLinear(oFadeBottom)]

\* Sine.Read leaving the pending fades in place (a seeded fault)
SineRead_KeepsFades(sine, n) ==
    [n |-> n,
     buff |-> [i \in 1..n |->
                 [src |-> "sine", freq |-> sine.freq, amp |-> sine.amplitude,
                  i |-> i - 1, len |-> n,
                  iFade |-> sine.iFade, iFadeBottom |-> sine.iFadeBottom,
                  oFade |-> sine.oFade, oFadeBottom |-> sine.oFadeBottom]],
     src |-> sine]

\* Sine.Read(buff) with len(buff) = n: sample i is determined by the
\* frequency, the amplitude, the fades read at the start of the call and
\* i (and the phase, which is not kept); the pending fades are reset.
SineRead(sine, n) ==
    [n |-> n,
     buff |-> [i \in 1..n |->
                 [src |-> "sine", freq |-> sine.freq, amp |-> sine.amplitude,
                  i |-> i - 1, len |-> n,
                  iFade |-> sine.iFade, iFadeBottom |-> sine.iFadeBottom,
                  oFade |-> sine.oFade, oFadeBottom |-> sine.oFadeBottom]],
     src |-> [sine EXCEPT !.iFade = 0, !.oFade = 0,
                          !.iFadeBottom = LinearZero, !.oFadeBottom = LinearZero]]

(***************************************************************************)
(* The voice announcer (WaveFileAnnouncer).                                *)
(***************************************************************************)
\* timeInSamples rounding to the nearest sample (a seeded fault)
timeInSamples_Rounded(t, sampleRate) ==
    (t * sampleRate + Second \div 2) \div Second

\* timeInSamples(t, sampleRate): int(t) * sampleRate / int(time.Second),
\* truncated
timeInSamples(t, sampleRate) == (t * sampleRate) \div Second

\* a clip read by readWaveFile: ClipLen samples, each named by its file and
\* its index
Clip(name, num) == [k \in 1..ClipLen |-> [clip |-> name, num |-> num, k |-> k - 1]]

\* n samples of silence left by make([]float32, length)
Silence(n) == [k \in 1..n |-> [clip |-> "silence", num |-> 0, k |-> 0]]

\* NewWaveFileAnnouncer(dir, amplitudeDBFS, sampleRate)
NewWaveFileAnnouncer(amplitudeDBFS, sampleRate) ==
    [amplitude |-> dBFSToLinear(amplitudeDBFS), timeAnnouncement |-> <<>>,
     offset |-> 0, sampleRate |-> sampleRate]

\* WaveFileAnnouncer.SetTime(t)
SetTime(wfa, t) ==
    LET pauseAfterHours == timeInSamples(100 * Millisecond, wfa.sampleRate)
        pauseBeforeUTC == timeInSamples(800 * Millisecond, wfa.sampleRate)
        hours == IF t.hour = 1 THEN Clip("hour", 0) ELSE Clip("hours", 0)
        minutes == IF t.minute = 1 THEN Clip("minute", 0) ELSE Clip("minutes", 0)
    IN  [wfa EXCEPT
           !.timeAnnouncement =
               Clip("att", 0) \o Clip("number", t.hour) \o hours
               \o Silence(pauseAfterHours)
               \o Clip("number", t.minute) \o minutes
               \o Silence(pauseBeforeUTC) \o Clip("utc", 0),
           !.offset = 0]

\* WaveFileAnnouncer.Skip(n)
Skip(wfa, n) == [wfa EXCEPT !.offset = wfa.offset + n]

\* Read counting every sample of the buffer into the offset, the silent
\* ones too (a seeded fault)
WfaRead_CountsSilence(wfa, n) ==
    LET length == Len(wfa.timeAnnouncement)
        avail == IF wfa.offset >= length THEN 0 ELSE length - wfa.offset
        played == Min(n, avail)
    IN  [n |-> n,
         buff |-> [i \in 1..n |->
                     IF i <= played
                     THEN [src |-> "wfa", at |-> wfa.offset + i - 1,
                           smp |-> wfa.timeAnnouncement[wfa.offset + i],
                           amp |-> wfa.amplitude]
                     ELSE [src |-> "zero"]],
         src |-> [wfa EXCEPT !.offset = wfa.offset + n]]

\* WaveFileAnnouncer.Read(buff) with len(buff) = n: while the offset is
\* inside the announcement, sample i is timeAnnouncement[offset] * amplitude
\* and the offset advances; past its end the sample is 0.0 and the offset
\* stays
WfaRead(wfa, n) ==
    LET length == Len(wfa.timeAnnouncement)
        avail == IF wfa.offset >= length THEN 0 ELSE length - wfa.offset
        played == Min(n, avail)
    IN  [n |-> n,
         buff |-> [i \in 1..n |->
                     IF i <= played
                     THEN [src |-> "wfa", at |-> wfa.offset + i - 1,
                           smp |-> wfa.timeAnnouncement[wfa.offset + i],
                           amp |-> wfa.amplitude]
                     ELSE [src |-> "zero"]],
         src |-> [wfa EXCEPT !.offset = wfa.offset + played]]

(***************************************************************************)
(* The composer (TimeAudioSource): per-second generation.                  *)
(*                                                                         *)
(* A composer is a record of the struct's fields (sineGen and wfa are the  *)
(* objects it owns) and three history fields that no code reads: mixLog,   *)
(* the mixFrom calls made since the scratch buffer was last erased,        *)
(* genSecond, the argument of the last nextSecond call, and genFor, the    *)
(* Time of the Minute held at that call.                                   *)
(***************************************************************************)
\* fade lengths, in 1/FadeUnit seconds
tickFade == 3
toneFade == 100
minuteFade == 50
codeFade == 100
codeReduceFade == 100

\* the amplitude the announcer is created with is -2.499 dBFS; it is kept
\* as the nearest whole number
announcerDBFS == -2

\* buff[k] += nBuff[k - start] over the slice secBuff[start:end]; adding
\* 0.0 leaves a sample as it is
MixInto(secBuff, start, end, nBuff) ==
    [k \in 1..Len(secBuff) |->
        IF k > start /\ k <= end /\ nBuff[k - start].src # "zero"
        THEN secBuff[k] \cup {nBuff[k - start]}
        ELSE secBuff[k]]

\* mixFrom(s.sineGen, s.secBuff[start:end]), called by the layer `by`
mixFromSine(st, start, end, by) ==
    LET r == SineRead(st.sineGen, end - start)
    IN  [st EXCEPT
           !.secBuff = MixInto(st.secBuff, start, end, r.buff),
           !.sineGen = r.src,
           !.mixLog = Append(@, [by |-> by, src |-> "sine",
                                 freq |-> st.sineGen.freq,
                                 amp |-> st.sineGen.amplitude,
                                 start |-> start, end |-> end])]

\* the minute mark without the top-of-the-hour frequency (a seeded fault)
minuteMarkFreq_Always1000(min) == 1000

\* the frequency chosen by writeMinuteMark
minuteMarkFreq(min) == IF min.Time.minute = 0 THEN 1500 ELSE 1000

\* writeMinuteMark without its test of the second (a seeded fault)
writeMinuteMark_EverySecond(st, second) ==
    LET g1 == SetFreq(SetAmpDBFS(st.sineGen, 0), minuteMarkFreq(st.min))
        g2 == SetOFade(SetIFade(g1, minuteFade, -1000), minuteFade, -1000)
        end == timeInSamples(800 * Millisecond, Len(st.secBuff))
    IN  mixFromSine([st EXCEPT !.sineGen = g2], 0, end, "minuteMark")

\* writeMinuteMark(second)
writeMinuteMark(st, second) ==
    IF second # 0 THEN st
    ELSE LET freq == minuteMarkFreq(st.min)
             g1 == SetFreq(SetAmpDBFS(st.sineGen, 0), freq)
             g2 == SetOFade(SetIFade(g1, minuteFade, -1000), minuteFade, -1000)
             end == timeInSamples(800 * Millisecond, Len(st.secBuff))
         IN  mixFromSine([st EXCEPT !.sineGen = g2], 0, end, "minuteMark")

\* the seconds without a tick, second 59 forgotten (a seeded fault)
noTick_After59(second) == second = 0 \/ second = 29 \/ second > 59

\* the first test of writeTick: no tick on this second
noTick(second) == second = 0 \/ second = 29 \/ second >= 59

\* the window of the extra tick without the limit of 0.8 s (a seeded fault)
noExtraTick_Unclamped(dut1, second) ==
    LET dut1I == IF dut1 < 0 THEN second - 8 ELSE second
        mag == IF dut1 < 0 THEN dut1 * (-1) ELSE dut1
    IN  dut1 = 0 \/ dut1I <= 0 \/ mag < dut1I

\* the tests of writeTick that return before the extra tick
noExtraTick(dut1, second) ==
    LET dut1I == IF dut1 < 0 THEN second - 8 ELSE second
        mag == IF dut1 < 0 THEN dut1 * (-1) ELSE dut1
        clamped == IF mag > 8 THEN 8 ELSE mag
    IN  dut1 = 0 \/ dut1I <= 0 \/ clamped < dut1I

\* writeTick(second): the tick, and the extra tick for DUT1 at 100 ms
writeTick(st, second) ==
    IF noTick(second) THEN st
    ELSE LET g1 == SetFreq(SetAmpDBFS(st.sineGen, 0), 1000)
             g2 == SetOFade(SetIFade(g1, tickFade, -1000), tickFade, -1000)
             end == timeInSamples(5 * Millisecond, Len(st.secBuff))
             st1 == mixFromSine([st EXCEPT !.sineGen = g2], 0, end, "tick")
         IN  IF noExtraTick(st.min.dut1, second) THEN st1
             ELSE LET g3 == SetOFade(SetIFade(st1.sineGen, tickFade, -1000),
                                     tickFade, -1000)
                      start2 == timeInSamples(100 * Millisecond, Len(st.secBuff))
                      end2 == timeInSamples(105 * Millisecond, Len(st.secBuff))
                  IN  mixFromSine([st1 EXCEPT !.sineGen = g3], start2, end2,
                                  "dut1Tick")

\* the tone without the exception for hour 0 (a seeded fault)
toneFreq_NoHourRule(min) ==
    IF min.Time.minute = 2 THEN 440
    ELSE IF min.Time.minute % 2 = 0 THEN 500
    ELSE 600

\* the frequency chosen by writeTone
toneFreq(min) ==
    IF min.Time.minute = 2 /\ min.Time.hour # 0 THEN 440
    ELSE IF min.Time.minute % 2 = 0 THEN 500
    ELSE 600

\* writeTone(second)
writeTone(st, second) ==
    IF second = 0 \/ second >= 45 THEN st
    ELSE LET g1 == SetAmpDBFS(st.sineGen, -6)
             g2 == SetOFade(SetIFade(g1, toneFade, -1000), toneFade, -1000)
             g3 == SetFreq(g2, toneFreq(st.min))
             start == timeInSamples(30 * Millisecond, Len(st.secBuff))
             end == timeInSamples(990 * Millisecond, Len(st.secBuff))
         IN  mixFromSine([st EXCEPT !.sineGen = g3], start, end, "tone")

\* the marker held high no longer than a zero (a seeded fault)
reduceAt_MarkerAsZero(bit, sampleRate) ==
    IF bit = bit1 THEN timeInSamples(500 * Millisecond, sampleRate)
    ELSE timeInSamples(200 * Millisecond, sampleRate)

\* reduceAt of writeTimeCode: where the high level ends
reduceAt(bit, sampleRate) ==
    IF bit = bit1 THEN timeInSamples(500 * Millisecond, sampleRate)
    ELSE IF bit = bitMarker THEN timeInSamples(800 * Millisecond, sampleRate)
    ELSE timeInSamples(200 * Millisecond, sampleRate)

\* writeTimeCode(second): the 100 Hz sub-carrier, high then low
writeTimeCode(st, second) ==
    LET bit == st.min.bits[second + 1]
    IN  IF bit = bitNone THEN st
        ELSE LET g1 == SetFreq(SetAmpDBFS(st.sineGen, -15), 100)
                 g2 == SetOFade(SetIFade(g1, codeFade, -1000), codeReduceFade, -30)
                 start == timeInSamples(30 * Millisecond, Len(st.secBuff))
                 end == timeInSamples(990 * Millisecond, Len(st.secBuff))
                 mid == reduceAt(bit, Len(st.secBuff))
                 st1 == mixFromSine([st EXCEPT !.sineGen = g2], start, mid,
                                    "codeHigh")
                 g3 == SetOFade(SetAmpDBFS(st1.sineGen, -30), codeFade, -1000)
             IN  mixFromSine([st1 EXCEPT !.sineGen = g3], mid, end, "codeLow")

\* announceNextMinute(second)
announceNextMinute(st, second) ==
    IF second < 52 THEN st
    ELSE LET start == IF second = 52
                      THEN timeInSamples(500 * Millisecond, Len(st.secBuff))
                      ELSE 0
             skip == timeInSamples(second * Second, Len(st.secBuff))
                     - timeInSamples(52500 * Millisecond, Len(st.secBuff))
                     - st.announcerOffset
             wfa1 == IF skip > 0 THEN Skip(st.wfa, skip) ELSE st.wfa
             r == WfaRead(wfa1, Len(st.secBuff) - start)
             \* mixFrom returns len(buff)
             n == Len(st.secBuff) - start
         IN  [st EXCEPT
                !.secBuff = MixInto(st.secBuff, start, Len(st.secBuff), r.buff),
                !.wfa = r.src,
                !.announcerOffset = st.announcerOffset + n,
                !.mixLog = Append(@, [by |-> "announce", src |-> "wfa",
                                      freq |-> 0, amp |-> st.wfa.amplitude,
                                      start |-> start, end |-> Len(st.secBuff)])]

\* nextSecond(second): erase the scratch buffer, then the five layers.  No
\* layer returns an error (Sine.Read and WaveFileAnnouncer.Read return nil),
\* so nextSecond returns nil.
nextSecond(st, second) ==
    LET st0 == [st EXCEPT !.secBuff = [k \in 1..Len(st.secBuff) |-> {}],
                          !.mixLog = <<>>,
                          !.genSecond = second,
                          !.genFor = st.min.Time]
    IN  announceNextMinute(
          writeTimeCode(
            writeTone(
              writeTick(
                writeMinuteMark(st0, second), second), second), second), second)

\* NewTimeAudioSource(minChan, amplitudeDBFS, sampleRate)
NewTimeAudioSource(amplitudeDBFS, sampleRate) ==
    [amplitude |-> dBFSToLinear(amplitudeDBFS),
     min |-> ZeroMinute,
     secBuff |-> [k \in 1..sampleRate |-> {}],
     samplesRead |-> 0,
     sineGen |-> NewSine(440, 0, sampleRate),
     wfa |-> NewWaveFileAnnouncer(announcerDBFS, sampleRate),
     announcerOffset |-> 0,
     mixLog |-> <<>>,
     genSecond |-> -1,
     genFor |-> ZeroTime]

(***************************************************************************)
(* The Minutes fed to the composer.  Each is built by NewMinute.           *)
(***************************************************************************)
\* (second, millisecond) at which a fed Minute starts
StartOffsets ==
    { <<0, 0>>, <<0, 300>>, <<29, 999>>, <<51, 900>>, <<52, 0>>, <<52, 600>>,
      <<53, 0>>, <<55, 250>>, <<58, 0>>, <<59, 750>> }

\* tones, minute marks and announcements: hours and minutes of 2017-08-15
ToneTimes ==
    { MkTime(2017, 8, 15, h, mi, 0, 0) : h \in {0, 11}, mi \in {0, 1, 2, 3} }

\* the month's last minute and its neighbours, started late in the minute
LeapDates == { <<2017, 6, 30>>, <<2017, 6, 29>>, <<2016, 2, 28>>, <<2016, 2, 29>>,
               <<2017, 2, 28>>, <<2017, 12, 31>> }
LeapTimes ==
    { MkTime(d[1], d[2], d[3], hm[1], hm[2], o[1], o[2]) :
        d \in LeapDates, hm \in { <<23, 59>>, <<23, 58>>, <<22, 59>>, <<0, 59>> },
        o \in { <<58, 0>>, <<59, 750>> } }

MinuteInputs ==
    LET built ==
          \* every start offset, DUT1 = 3 as getCurrentMinute sets it
          { NewMinute(MkTime(2017, 8, 15, 10, 4, o[1], o[2]), 0, 3) :
              o \in StartOffsets }
          \cup { NewMinute(t, 0, 0) : t \in ToneTimes }
          \cup { NewMinute(MkTime(2017, 8, 15, 10, 0, 0, 0), 0, d) :
                   d \in (-MaxDUT1)..MaxDUT1 }
          \cup { NewMinute(t, lsw, 0) : t \in LeapTimes, lsw \in {0, 1} }
          \cup { NewMinute(MkTime(2017, 6, 30, 23, 59, 0, 0), lsw, 0) :
                   lsw \in {0, 1} }
    IN  { r.min : r \in { b \in built : ~b.err } }

(***************************************************************************)
(* State.                                                                  *)
(*   tas    the composer                                                   *)
(*   rd     the Read call in progress or last returned: its buffer length, *)
(*          loop index i, the samples written to buff, and its locals      *)
(*          amplitude and samplesRead                                      *)
(*   ret    the results (n, err) of Read: zero at the call, set at return  *)
(*   feed   the Minute channel as the composer has seen it: "open" while   *)
(*          every receive was handed a Minute, "closed" once a receive     *)
(*          found the channel closed (a closed channel stays closed; the   *)
(*          composer cannot tell when before the receive it was closed)    *)
(*   cur    history: whether tas.min was received from the channel, the    *)
(*          value samplesRead was set to on receiving it, the samples      *)
(*          emitted since, the first of them and the nextSecond calls made *)
(*          for it (gens); whether a Read has                              *)
(*          returned the end-of-stream error, and the Reads called since   *)
(*   meter  history: with on set, every Read has a buffer of meter.len     *)
(*          samples; calls counts the Reads returned and emitted the       *)
(*          samples written                                                *)
(***************************************************************************)
VARIABLES tas, rd, ret, feed, cur, meter

\* the state of the encoder, of the Minute builder and of the live producer,
\* described with their actions below; Read touches none of them
VARIABLES enc, nm, live

\* the state of the announcer, of a source read while its amplitude is set,
\* of the oscillator and of one generated second, each on its own, described
\* with their actions below
VARIABLES ann, amp, osc, gen
others == <<enc, nm, live, ann, amp, osc, gen>>

vars == <<tas, rd, ret, feed, cur, meter, enc, nm, live, ann, amp, osc, gen>>

\* no encoder constructed yet
EncStart == [pc |-> "none"]

\* NewMinute not called yet
NmStart == [pc |-> "none"]

\* GetLiveMinutes has made the channel and started its goroutine, which is
\* about to call getCurrentMinute; the timer does not exist yet, the
\* consumer has not called Read yet
LiveStart ==
    [pc |-> "getMinute", minute |-> 0, armed |-> FALSE, left |-> 0,
     fired |-> FALSE, stop |-> "open", minutes |-> "open",
     consumer |-> "busy", got |-> 0, now |-> 0,
     dur |-> 0, expiries |-> 0, sent |-> FALSE, closes |-> 0,
     sentClosed |-> FALSE]

\* the announcer as NewWaveFileAnnouncer returns it; no operation called yet
AnnStart ==
    [wfa |-> NewWaveFileAnnouncer(announcerDBFS, SampleRate), op |-> "new",
     n |-> 0, before |-> 0, buff |-> <<>>, ret |-> [n |-> 0, err |-> "nil"]]

\* no source made yet
AmpStart == [pc |-> "none"]

\* no oscillator made yet
OscStart == [pc |-> "none"]

\* no second generated yet
GenStart == [pc |-> "none"]

NoSample ==
    [sec |-> -1, idx |-> -1, pos |-> -1, mix |-> {}, amp |-> 0,
     for |-> ZeroTime, of |-> ZeroTime]

InitWith(m) ==
    /\ tas = NewTimeAudioSource(-6, SampleRate)
    /\ rd = [pc |-> "idle", len |-> 0, i |-> 0, buff |-> <<>>,
             amplitude |-> tas.amplitude, samplesRead |-> 0]
    /\ ret = [n |-> 0, err |-> "nil"]
    /\ feed = "open"
    /\ cur = [pulled |-> FALSE, start |-> 0, emitted |-> 0, first |-> NoSample,
              eos |-> FALSE, afterEOS |-> 0, gens |-> 0]
    /\ meter = m
    /\ enc = EncStart
    /\ nm = NmStart
    /\ live = LiveStart
    /\ ann = AnnStart
    /\ amp = AmpStart
    /\ osc = OscStart
    /\ gen = GenStart

Init == InitWith([on |-> FALSE, len |-> 0, calls |-> 0, emitted |-> 0,
                  failed |-> FALSE])

InitCount ==
    \E n \in 0..MaxBuf :
        InitWith([on |-> TRUE, len |-> n, calls |-> 0, emitted |-> 0,
                  failed |-> FALSE])

\* Read(buff) is called with len(buff) = n: the locals are read; an empty
\* buffer returns at once
ReadCall(n) ==
    /\ rd.pc = "idle"
    /\ meter.on => (n = meter.len /\ meter.calls < MaxCalls)
    /\ cur.eos => cur.afterEOS < MaxAfterEOS
    /\ rd' = [pc |-> IF n = 0 THEN "idle" ELSE "loop", len |-> n, i |-> 0,
              buff |-> <<>>, amplitude |-> tas.amplitude,
              samplesRead |-> tas.samplesRead]
    \* the named results n, err start at their zero values
    /\ ret' = [n |-> 0, err |-> "nil"]
    /\ meter' = IF meter.on /\ n = 0
                THEN [meter EXCEPT !.calls = @ + 1] ELSE meter
    /\ cur' = IF cur.eos THEN [cur EXCEPT !.afterEOS = @ + 1] ELSE cur
    /\ UNCHANGED <<tas, feed>>
    /\ UNCHANGED others

\* one pass of the loop body of Read from the nextSecond test on, with the
\* composer st and the local samplesRead
LoopBody(st, samplesRead, newMinute, amplitude) ==
    LET sampleRate == Len(st.secBuff)
        called == samplesRead % sampleRate = 0 \/ newMinute
        st1 == IF called
               THEN nextSecond(st, samplesRead \div sampleRate)
               ELSE st
    IN  [st |-> st1,
         called |-> called,
         sample |-> [sec |-> st1.genSecond, idx |-> samplesRead % sampleRate,
                     pos |-> samplesRead,
                     mix |-> st1.secBuff[(samplesRead % sampleRate) + 1],
                     amp |-> amplitude,
                     for |-> st1.genFor, of |-> st1.min.Time],
         samplesRead |-> (samplesRead + 1)
                           % ((st1.min.lastSecond + 1) * sampleRate)]

\* Read returning the index of the last pass for len(buff) (a seeded fault)
Emit_ReturnsIndex(b) ==
    LET last == rd.i + 1 = rd.len
    IN  /\ rd' = [rd EXCEPT !.i = @ + 1, !.buff = Append(@, b.sample),
                            !.samplesRead = b.samplesRead,
                            !.pc = IF last THEN "idle" ELSE "loop"]
        /\ tas' = IF last THEN [b.st EXCEPT !.samplesRead = b.samplesRead]
                  ELSE b.st
        /\ ret' = IF last THEN [n |-> rd.i, err |-> "nil"] ELSE ret
        /\ meter' = IF meter.on
                    THEN [meter EXCEPT !.emitted = @ + 1,
                                       !.calls = IF last THEN @ + 1 ELSE @]
                    ELSE meter

\* the end of a pass: buff[i] is written; after the last pass samplesRead
\* is stored and Read returns len(buff), nil
Emit(b) ==
    LET last == rd.i + 1 = rd.len
    IN  /\ rd' = [rd EXCEPT !.i = @ + 1, !.buff = Append(@, b.sample),
                            !.samplesRead = b.samplesRead,
                            !.pc = IF last THEN "idle" ELSE "loop"]
        /\ tas' = IF last THEN [b.st EXCEPT !.samplesRead = b.samplesRead]
                  ELSE b.st
        /\ ret' = IF last THEN [n |-> rd.len, err |-> "nil"] ELSE ret
        /\ meter' = IF meter.on
                    THEN [meter EXCEPT !.emitted = @ + 1,
                                       !.calls = IF last THEN @ + 1 ELSE @]
                    ELSE meter

\* samplesRead == 0 and the channel hands over the Minute m
ReadRecvMinute(m) ==
    /\ rd.pc = "loop"
    /\ rd.samplesRead = 0
    /\ feed = "open"
    /\ LET sampleRate == Len(tas.secBuff)
           st == [tas EXCEPT !.min = m,
                             !.wfa = SetTime(tas.wfa, AddMinute(m.Time)),
                             !.announcerOffset = 0]
           seek == rd.samplesRead
                   + timeInSamples(m.Time.second * Second, sampleRate)
                   + timeInSamples(m.Time.nsec, sampleRate)
           b == LoopBody(st, seek, TRUE, rd.amplitude)
       IN  /\ Emit(b)
           /\ cur' = [cur EXCEPT !.pulled = TRUE, !.start = seek,
                                  !.emitted = 1, !.first = b.sample,
                                  !.gens = 1]
    /\ UNCHANGED feed
    /\ UNCHANGED others

\* the closed channel answered with len(buff) for i (a seeded fault)
ReadRecvClosed_ReturnsLen ==
    /\ rd.pc = "loop"
    /\ rd.samplesRead = 0
    /\ feed' = "closed"
    /\ tas' = [tas EXCEPT !.min = ZeroMinute]
    /\ rd' = [rd EXCEPT !.pc = "idle"]
    /\ ret' = [n |-> rd.len, err |-> "No more minutes provided"]
    /\ cur' = [cur EXCEPT !.pulled = FALSE, !.eos = TRUE]
    /\ meter' = IF meter.on THEN [meter EXCEPT !.failed = TRUE] ELSE meter
    /\ UNCHANGED others

\* samplesRead == 0 and the channel is closed (its producer closed it at
\* some moment before this receive, or had closed it already): the receive
\* yields the zero Minute and ok == false; Read returns i and an error,
\* samplesRead is not stored
ReadRecvClosed ==
    /\ rd.pc = "loop"
    /\ rd.samplesRead = 0
    /\ feed' = "closed"
    /\ tas' = [tas EXCEPT !.min = ZeroMinute]
    /\ rd' = [rd EXCEPT !.pc = "idle"]
    /\ ret' = [n |-> rd.i, err |-> "No more minutes provided"]
    /\ cur' = [cur EXCEPT !.pulled = FALSE, !.eos = TRUE]
    /\ meter' = IF meter.on THEN [meter EXCEPT !.failed = TRUE] ELSE meter
    /\ UNCHANGED others

\* samplesRead # 0: no receive
ReadNext ==
    /\ rd.pc = "loop"
    /\ rd.samplesRead # 0
    /\ LET b == LoopBody(tas, rd.samplesRead, FALSE, rd.amplitude)
       IN  /\ Emit(b)
           /\ cur' = IF cur.pulled
                      THEN [cur EXCEPT !.emitted = @ + 1,
                                       !.gens = IF b.called THEN @ + 1 ELSE @]
                      ELSE cur
    /\ UNCHANGED feed
    /\ UNCHANGED others

Next ==
    \/ \E n \in 0..MaxBuf : ReadCall(n)
    \/ \E m \in MinuteInputs : ReadRecvMinute(m)
    \/ ReadRecvClosed
    \/ ReadNext

Spec == Init /\ [][Next]_vars

\* every Read of a behaviour has the same buffer length; calls are counted
SpecCount == InitCount /\ [][Next]_vars

(***************************************************************************)
(* Properties.                                                             *)
(***************************************************************************)
\* the sample counter of the composer: the local samplesRead of the Read
\* in progress, the stored field between calls
Position == IF rd.pc = "loop" THEN rd.samplesRead ELSE tas.samplesRead

\* the modulus of the sample counter for the Minute the composer holds
Modulus == (tas.min.lastSecond + 1) * SampleRate

\* C1: as long as every receive is handed a Minute, each Read(buf) returns
\* n == len(buf) and no error with len(buf) samples written, so that after
\* K calls with buffers of B samples exactly K*B samples have been emitted
\* (plus the i samples of a call in progress), wherever the buffer
\* boundaries fall.
C1_Throughput ==
    (meter.on /\ ~meter.failed) =>
        /\ meter.emitted
             = meter.calls * meter.len + (IF rd.pc = "loop" THEN rd.i ELSE 0)
        /\ rd.pc = "idle" =>
             /\ ret.n = rd.len
             /\ ret.err = "nil"
             /\ Len(rd.buff) = rd.len
        /\ rd.len = meter.len \/ meter.calls = 0

\* a third call has returned a buffer of two samples that straddles a
\* minute boundary
C1_Witness ==
    /\ meter.on /\ ~meter.failed
    /\ rd.pc = "idle" /\ meter.len = 2 /\ meter.calls >= 3
    /\ Len(rd.buff) = 2
    /\ rd.buff[2].pos < rd.buff[1].pos

\* C2: the sample counter always stays in [0, (lastSecond+1)*sampleRate) of
\* the Minute the composer holds; it advances by one per emitted sample and
\* wraps to 0 exactly at the modulus, so a Minute that started at offset k
\* has emitted k' samples when the counter stands at (k + k') mod modulus,
\* never more than modulus - k, and the next Minute is pulled (counter 0)
\* only after exactly modulus - k samples.
C2_SampleCounter ==
    /\ Position \in 0..(Modulus - 1)
    /\ cur.pulled =>
         /\ cur.start + cur.emitted <= Modulus
         /\ Position = (cur.start + cur.emitted) % Modulus

\* the same statement for the states before any receive has found the
\* channel closed
SampleCounterBeforeEOS == ~cur.eos => C2_SampleCounter

\* C3: lastSecond is 60 exactly for a Minute with lsw set whose Time is
\* 23:59 on the last day of its month (the day after it is the 1st), and
\* 59 otherwise; a Minute that started at second 0 has emitted exactly
\* 61*sampleRate resp. 60*sampleRate samples when the counter is back at 0,
\* where the next Minute is pulled, and fewer before.
C3_MinuteLength ==
    cur.pulled =>
        LET t == tas.min.Time
            lastDay == AddMinute([t EXCEPT !.hour = 23, !.minute = 59]).day = 1
            leap == tas.min.lsw /\ t.hour = 23 /\ t.minute = 59 /\ lastDay
            total == (IF leap THEN 61 ELSE 60) * SampleRate
        IN  /\ tas.min.lastSecond = IF leap THEN 60 ELSE 59
            /\ cur.start = 0 =>
                 /\ cur.emitted <= total
                 /\ (Position = 0) <=> (cur.emitted = total)

\* a leap minute that started at second 0 is exhausted after 61 seconds
C3_Witness ==
    /\ cur.pulled /\ cur.start = 0
    /\ tas.min.lastSecond = 60
    /\ cur.emitted = 61 * SampleRate
    /\ Position = 0

\* C4: when a receive at a minute boundary finds the channel closed, Read
\* returns at once the number of samples written so far in this call,
\* 0 <= n < len(buf), and a non-nil error, and writes no further sample.
C4_EndOfStream ==
    [][(rd.pc = "loop" /\ rd.samplesRead = 0 /\ feed' = "closed") =>
          /\ rd'.pc = "idle"
          /\ ret'.err # "nil"
          /\ ret'.n = rd.i
          /\ ret'.n >= 0 /\ ret'.n < rd.len
          /\ rd'.buff = rd.buff
          /\ Len(rd'.buff) = ret'.n]_vars

\* a Read has returned an error after writing a sample in the same call
C4_Witness ==
    /\ rd.pc = "idle" /\ feed = "closed"
    /\ ret.err # "nil"
    /\ ret.n > 0 /\ ret.n < rd.len
    /\ Len(rd.buff) = ret.n

\* C5: a received Minute whose Time is d = second + fraction into its
\* minute sets the counter to second*sampleRate + floor(fraction *
\* sampleRate) = floor(d*sampleRate): the first sample emitted for it is
\* the sample at that in-minute index, read at index floor(d*sampleRate)
\* mod sampleRate of a scratch buffer generated for second floor(d).
C5_SeekOnReceive ==
    cur.pulled =>
        LET t == tas.min.Time
            d == t.second * Second + t.nsec
            k == (d * SampleRate) \div Second
        IN  /\ cur.start = t.second * SampleRate
                             + (t.nsec * SampleRate) \div Second
            /\ cur.start = k
            /\ cur.first.pos = k
            /\ cur.first.sec = d \div Second
            /\ cur.first.idx = k % SampleRate

\* a Minute was received in the middle of a second, at a fraction that does
\* not fall on a sample
C5_Witness ==
    /\ cur.pulled
    /\ tas.min.Time.second > 0
    /\ (tas.min.Time.nsec * SampleRate) % Second # 0
    /\ cur.first.idx > 0

\* the mixFrom calls a layer made for the second in the scratch buffer
LogBy(by) == {k \in DOMAIN tas.mixLog : tas.mixLog[k].by = by}

\* the mixFrom calls that read a sine of the given frequency
LogFreq(freq) ==
    {k \in DOMAIN tas.mixLog :
        tas.mixLog[k].src = "sine" /\ tas.mixLog[k].freq = freq}

\* C6: for any starting offset inside the minute, every announcer sample
\* mixed at in-minute sample index p (index p - s*sampleRate of the scratch
\* buffer of second s >= 52) is sample p - 52.5*sampleRate of the utterance
\* assembled for timestamp + 1 minute, so that the utterance begins exactly
\* 52.5 s past the minute mark.
C6_AnnouncerAligned ==
    cur.pulled =>
        \A k \in DOMAIN tas.secBuff : \A c \in tas.secBuff[k] :
            c.src = "wfa" =>
                /\ tas.genSecond >= 52
                /\ c.at = tas.genSecond * SampleRate + (k - 1)
                            - (52500 * SampleRate) \div 1000
                /\ c.smp = SetTime(tas.wfa, AddMinute(tas.min.Time))
                              .timeAnnouncement[c.at + 1]

\* the same statement for the Minutes whose first generated second is 52
\* or earlier
AnnouncerAlignedFromBefore53 ==
    cur.start < 53 * SampleRate => C6_AnnouncerAligned

\* C7: for every second s of a Minute, nextSecond writes the 5 ms 1000 Hz
\* full-amplitude tick at 0 ms of the second if and only if s is not one of
\* 0, 29, 59, 60.
C7_TickSeconds ==
    cur.pulled =>
        /\ (LogBy("tick") # {}) <=> (tas.genSecond \notin {0, 29, 59, 60})
        /\ Cardinality(LogBy("tick")) <= 1
        /\ \A k \in LogBy("tick") :
              /\ tas.mixLog[k].freq = 1000
              /\ tas.mixLog[k].amp = 0
              /\ tas.mixLog[k].start = 0
              /\ tas.mixLog[k].end = (5 * SampleRate) \div 1000

\* the leap second of a leap minute was generated, without a tick
C7_Witness ==
    /\ cur.pulled
    /\ tas.genSecond = 60
    /\ tas.min.lastSecond = 60
    /\ LogBy("tick") = {}
    /\ tas.mixLog # <<>>

\* C8 as stated: for a Minute with DUT1 = 0 no 1000 Hz sine is written into
\* the scratch buffer at seconds 0, 29, 59 and 60, whatever the
\* minute-of-hour.
C8_NoKilohertzOnMaskedSeconds ==
    (cur.pulled /\ tas.min.dut1 = 0 /\ tas.genSecond \in {0, 29, 59, 60})
        => LogFreq(1000) = {}

\* C8, amended: for a Minute with DUT1 = 0 no 1000 Hz sine is written at
\* seconds 29, 59 and 60; at second 0 no tick is written, and the only
\* 1000 Hz sine is the 800 ms minute mark, which has 1000 Hz exactly when
\* the minute-of-hour is not 0 (1500 Hz at the top of the hour).
C8_TickMask ==
    (cur.pulled /\ tas.min.dut1 = 0) =>
        /\ tas.genSecond \in {29, 59, 60} => LogFreq(1000) = {}
        /\ tas.genSecond = 0 =>
             /\ LogBy("tick") = {} /\ LogBy("dut1Tick") = {}
             /\ LogFreq(1000) \subseteq LogBy("minuteMark")
             /\ Cardinality(LogBy("minuteMark")) = 1
             /\ \A k \in LogBy("minuteMark") :
                   /\ tas.mixLog[k].start = 0
                   /\ tas.mixLog[k].end = (800 * SampleRate) \div 1000
                   /\ tas.mixLog[k].freq
                        = IF tas.min.Time.minute = 0 THEN 1500 ELSE 1000

\* second 0 of a Minute with DUT1 = 0 that is not at the top of the hour
\* carries the 1000 Hz minute mark
C8_Witness ==
    /\ cur.pulled /\ tas.min.dut1 = 0
    /\ tas.genSecond = 0
    /\ tas.min.Time.minute # 0
    /\ LogFreq(1000) # {}

\* C9: the extra 5 ms tick at 100 ms of the second is written exactly when
\* DUT1 > 0 and 1 <= s <= min(DUT1, 8), or DUT1 < 0 and
\* 9 <= s <= 8 + min(|DUT1|, 8); never when DUT1 = 0.
C9_ExtraTick ==
    cur.pulled =>
        LET s == tas.genSecond
            d == tas.min.dut1
            mag == IF d < 0 THEN 0 - d ELSE d
            upTo == IF mag < 8 THEN mag ELSE 8
        IN  /\ (LogBy("dut1Tick") # {}) <=>
                  \/ d > 0 /\ 1 <= s /\ s <= upTo
                  \/ d < 0 /\ 9 <= s /\ s <= 8 + upTo
            /\ Cardinality(LogBy("dut1Tick")) <= 1
            /\ \A k \in LogBy("dut1Tick") :
                  /\ tas.mixLog[k].freq = 1000
                  /\ tas.mixLog[k].start = (100 * SampleRate) \div 1000
                  /\ tas.mixLog[k].end = (105 * SampleRate) \div 1000

\* with DUT1 below -0.8 s the last extra tick is the one of second 16
C9_Witness ==
    /\ cur.pulled
    /\ tas.min.dut1 < -8
    /\ tas.genSecond = 16
    /\ LogBy("dut1Tick") # {}

\* C10: the standard tone is written for second s exactly when 0 < s < 45;
\* it has 440 Hz when minute == 2 and hour # 0, otherwise 500 Hz on an even
\* minute and 600 Hz on an odd one.
C10_StandardTone ==
    cur.pulled =>
        LET t == tas.min.Time
            freq == IF t.minute = 2 /\ t.hour # 0 THEN 440
                    ELSE IF t.minute % 2 = 0 THEN 500 ELSE 600
        IN  /\ (LogBy("tone") # {}) <=>
                  (0 < tas.genSecond /\ tas.genSecond < 45)
            /\ Cardinality(LogBy("tone")) <= 1
            /\ \A k \in LogBy("tone") :
                  /\ tas.mixLog[k].freq = freq
                  /\ tas.mixLog[k].amp = -6
                  /\ tas.mixLog[k].start = (30 * SampleRate) \div 1000
                  /\ tas.mixLog[k].end = (990 * SampleRate) \div 1000
            /\ LogFreq(440) \cup LogFreq(500) \cup LogFreq(600)
                 \subseteq LogBy("tone")

\* minute 2 of hour 0 keeps the 500 Hz tone up to second 44
C10_Witness ==
    /\ cur.pulled
    /\ tas.min.Time.hour = 0 /\ tas.min.Time.minute = 2
    /\ tas.genSecond = 44
    /\ \E k \in LogBy("tone") : tas.mixLog[k].freq = 500

(***************************************************************************)
(* The encoder on its own: newBCDEncoder, then one encode.                 *)
(*                                                                         *)
(*   enc    pc "none" before newBCDEncoder, "failed" when it returned an   *)
(*          error, "ready" when it returned the encoder b built from       *)
(*          fieldDefs, "done" after b.encode(outBuff, vals) returned res:  *)
(*          its error and outBuff as encode left it                        *)
(***************************************************************************)
\* a field of a small schema has up to MaxWeights weights, in -1..MaxWeight
MaxWeights == 3
MaxWeight == 2
\* the values encoded against the schema of the Minute: every value up to
\* MaxValue, and the multiples of ten above it
MaxValue == 16

\* the sequences over S of length up to n
RECURSIVE SeqsUpTo(_, _)
SeqsUpTo(S, n) ==
    IF n = 0 THEN {<<>>}
    ELSE LET shorter == SeqsUpTo(S, n - 1)
         IN  shorter \cup { Append(q, x) :
                              q \in {r \in shorter : Len(r) = n - 1}, x \in S }

\* the fields newFieldDef can be asked for
SmallFields ==
    { newFieldDef("f", w) : w \in SeqsUpTo((-1)..MaxWeight, MaxWeights) }

\* a second field, to follow any of them
SecondFields ==
    { newFieldDef("g", w) : w \in { <<0>>, <<1>>, <<1, 2>>, <<2, 1>> } }

\* the schemas handed to newBCDEncoder: the one of the Minute, and schemas
\* of up to two small fields
Schemas ==
    {minuteFieldDefs} \cup {<<>>}
    \cup { <<f>> : f \in SmallFields }
    \cup { <<f, g>> : f \in SmallFields, g \in SecondFields }

\* an output buffer of n elements, none of them bit0 or bit1
Preseed(n) == [k \in 1..n |-> IF k % 2 = 1 THEN bitNone ELSE bitMarker]

\* the buffers handed to encode: one element short, exact, one element long
BuffersFor(b) ==
    { Preseed(n) : n \in { k \in (b.outSize - 1)..(b.outSize + 1) : k >= 0 } }

\* the values tried for a field: below 0, beyond maxVal, and between them
ValuesOf(fd) ==
    { v \in (-1)..(fd.maxVal + 1) : v <= MaxValue \/ v % 10 = 0 }

\* the value tuples handed to encode.  For the schema of the Minute each
\* field in turn takes each of its values while the others are 0 or their
\* maxVal; for a small schema every field takes every value.  Two tuples
\* have the wrong length.
ValuesFor(b) ==
    LET n == Len(b.fieldDefs)
        zeros == [i \in 1..n |-> 0]
        sameLen ==
          IF b.fieldDefs = minuteFieldDefs
          THEN { [j \in 1..n |->
                    IF j = i THEN v
                    ELSE IF (j + v) % 2 = 0 THEN b.fieldDefs[j].maxVal ELSE 0] :
                   i \in 1..n, v \in
                     UNION { ValuesOf(b.fieldDefs[k]) : k \in 1..n } }
          ELSE { q \in [1..n -> UNION { ValuesOf(b.fieldDefs[k]) : k \in 1..n }] :
                   \A k \in 1..n : q[k] \in ValuesOf(b.fieldDefs[k]) }
    IN  { q \in sameLen : \A k \in 1..n : q[k] <= b.fieldDefs[k].maxVal + 1 }
        \cup {Append(zeros, 0)}
        \cup (IF n > 0 THEN {SubSeq(zeros, 1, n - 1)} ELSE {})

\* newBCDEncoder(fieldDefs)
NewEncoder(fieldDefs) ==
    /\ enc.pc = "none"
    /\ LET b == newBCDEncoder(fieldDefs)
       IN  enc' = [pc |-> IF b.err THEN "failed" ELSE "ready",
                   fieldDefs |-> fieldDefs, b |-> b]
    /\ UNCHANGED <<tas, rd, ret, feed, cur, meter, nm, live, ann, amp, osc, gen>>

\* b.encode(outBuff, vals)
Encode(outBuff, vals) ==
    /\ enc.pc = "ready"
    /\ enc' = [pc |-> "done", fieldDefs |-> enc.fieldDefs, b |-> enc.b,
               outBuff |-> outBuff, vals |-> vals,
               res |-> encode(enc.b, outBuff, vals)]
    /\ UNCHANGED <<tas, rd, ret, feed, cur, meter, nm, live, ann, amp, osc, gen>>

\* encode with every buffer and every tuple of values
EncodeAny ==
    /\ enc.pc = "ready"
    /\ \E outBuff \in BuffersFor(enc.b), vals \in ValuesFor(enc.b) :
          Encode(outBuff, vals)

NextEncode ==
    \/ \E fieldDefs \in Schemas : NewEncoder(fieldDefs)
    \/ EncodeAny

SpecEncode == Init /\ [][NextEncode]_vars

(***************************************************************************)
(* Properties of the time code and the minute mark.                        *)
(***************************************************************************)
\* C11: for every second s of a Minute the 100 Hz sub-carrier is written if
\* and only if bits[s] is not NONE; it is written at -15 dBFS from 30 ms to
\* 200 ms for a zero, to 500 ms for a one and to 800 ms for a marker, and
\* at -30 dBFS from there to 990 ms.
C11_TimeCodeEnvelope ==
    cur.pulled =>
        LET bit == tas.min.bits[tas.genSecond + 1]
            highMs == IF bit = bit0 THEN 200
                      ELSE IF bit = bit1 THEN 500 ELSE 800
            code == LogBy("codeHigh") \cup LogBy("codeLow")
        IN  /\ (code # {}) <=> (bit # bitNone)
            /\ LogFreq(100) = code
            /\ bit # bitNone =>
                 /\ bit \in {bit0, bit1, bitMarker}
                 /\ Cardinality(LogBy("codeHigh")) = 1
                 /\ Cardinality(LogBy("codeLow")) = 1
                 /\ \A k \in LogBy("codeHigh") :
                       /\ tas.mixLog[k].freq = 100
                       /\ tas.mixLog[k].amp = -15
                       /\ tas.mixLog[k].start = (30 * SampleRate) \div 1000
                       /\ tas.mixLog[k].end = (highMs * SampleRate) \div 1000
                 /\ \A k \in LogBy("codeLow") :
                       /\ tas.mixLog[k].freq = 100
                       /\ tas.mixLog[k].amp = -30
                       /\ tas.mixLog[k].start = (highMs * SampleRate) \div 1000
                       /\ tas.mixLog[k].end = (990 * SampleRate) \div 1000

\* the marker P2 of second 19 is held high for 800 ms
C11_Witness ==
    /\ cur.pulled
    /\ tas.genSecond = 19
    /\ tas.min.bits[20] = bitMarker
    /\ \E k \in LogBy("codeHigh") :
          tas.mixLog[k].end = (800 * SampleRate) \div 1000

\* C12: the minute mark is written for second 0 only, over the first
\* 800 ms of it, at 1500 Hz when the minute-of-hour is 0 and at 1000 Hz
\* otherwise; second 0 receives neither a tick nor a standard tone.
C12_MinuteMark ==
    cur.pulled =>
        /\ (LogBy("minuteMark") # {}) <=> (tas.genSecond = 0)
        /\ LogFreq(1500) \subseteq LogBy("minuteMark")
        /\ \A k \in LogBy("minuteMark") :
              /\ k = 1 /\ tas.mixLog[k].amp = 0
              /\ tas.mixLog[k].start = 0
              /\ tas.mixLog[k].end = (800 * SampleRate) \div 1000
              /\ (tas.min.Time.minute = 0) => tas.mixLog[k].freq = 1500
              /\ (tas.min.Time.minute # 0) => tas.mixLog[k].freq = 1000
        /\ tas.genSecond = 0 =>
              LogBy("tick") \cup LogBy("dut1Tick") \cup LogBy("tone") = {}

\* second 0 at the top of an hour carries the 1500 Hz mark
C12_Witness ==
    /\ cur.pulled
    /\ tas.genSecond = 0
    /\ tas.min.Time.minute = 0
    /\ \E k \in LogBy("minuteMark") : tas.mixLog[k].freq = 1500

(***************************************************************************)
(* Properties of the encoder.                                              *)
(***************************************************************************)
\* the weight slots of a schema: <<k, i, j>> for weight j of field i, which
\* lies at index k of the output
Slots(fieldDefs) ==
    UNION { LET first == SumSeq([h \in 1..(i - 1) |->
                                    Len(fieldDefs[h].weights)])
            IN  { <<first + j - 1, i, j>> : j \in 1..Len(fieldDefs[i].weights) } :
            i \in 1..Len(fieldDefs) }

\* the sum of weight * (bit == bit1) over the span of field i in buff
DecodeField(fieldDefs, buff, i) ==
    LET first == SumSeq([h \in 1..(i - 1) |-> Len(fieldDefs[h].weights)])
        w == fieldDefs[i].weights
    IN  SumSeq([j \in 1..Len(w) |-> IF buff[first + j] = bit1 THEN w[j] ELSE 0])

\* v is the sum of some of the weights
Representable(weights, v) ==
    \E S \in SUBSET (1..Len(weights)) :
        SumSeq([j \in 1..Len(weights) |-> IF j \in S THEN weights[j] ELSE 0]) = v

\* C13: for every tuple of values accepted by encode against the schema of
\* the Minute (each value from 0 to the maxVal of its field), every field
\* decodes to the value given for it: the sum of weight * (bit == bit1)
\* over its span is that value.
C13_RoundTrip ==
    (enc.pc = "done" /\ enc.fieldDefs = minuteFieldDefs /\ ~enc.res.err) =>
        \A i \in 1..Len(enc.vals) :
            DecodeField(enc.fieldDefs, enc.res.outBuff, i) = enc.vals[i]

\* the same statement for the values that are the sum of some of the
\* weights of their field, as all values are that NewMinute passes
RoundTripOfSums ==
    (enc.pc = "done" /\ enc.fieldDefs = minuteFieldDefs /\ ~enc.res.err) =>
        \A i \in 1..Len(enc.vals) :
            Representable(enc.fieldDefs[i].weights, enc.vals[i]) =>
                DecodeField(enc.fieldDefs, enc.res.outBuff, i) = enc.vals[i]

\* C14 as stated: the schema of the Minute has 61 weight slots, and every
\* index 0..60 of Minute.bits lies in exactly one of them.
C14_SixtyOneSlots ==
    (enc.pc \in {"ready", "done"} /\ enc.fieldDefs = minuteFieldDefs) =>
        /\ enc.b.outSize = 61
        /\ LET slots == Slots(enc.fieldDefs)
           IN  \A k \in 0..60 : Cardinality({t \in slots : t[1] = k}) = 1

\* C14, amended: the schema of the Minute has 60 weight slots
\* (outSize == 60): every index 0..59 of Minute.bits lies in exactly one of
\* them, index 60 in none, and encode leaves index 60 as it was.
C14_SixtySlots ==
    (enc.pc \in {"ready", "done"} /\ enc.fieldDefs = minuteFieldDefs) =>
        /\ enc.b.outSize = 60
        /\ LET slots == Slots(enc.fieldDefs)
           IN  /\ \A k \in 0..59 : Cardinality({t \in slots : t[1] = k}) = 1
               /\ {t \in slots : t[1] = 60} = {}
        /\ (enc.pc = "done" /\ Len(enc.outBuff) = BitsLen) =>
              /\ Len(enc.res.outBuff) = BitsLen
              /\ enc.res.outBuff[BitsLen] = enc.outBuff[BitsLen]

\* the encoder of the Minute has written a buffer of 61 elements
C14_Witness ==
    /\ enc.pc = "done" /\ enc.fieldDefs = minuteFieldDefs
    /\ ~enc.res.err
    /\ Len(enc.outBuff) = BitsLen
    /\ enc.res.outBuff # enc.outBuff

\* C17: encode returns an error if and only if the number of values differs
\* from the number of fields, or the buffer is shorter than the total
\* number of weights, or a value is negative, or a value exceeds the sum of
\* the weights of its field.
C17_EncodeErrors ==
    enc.pc = "done" =>
        LET n == Len(enc.fieldDefs)
            total == SumSeq([i \in 1..n |-> Len(enc.fieldDefs[i].weights)])
        IN  enc.res.err <=>
              \/ Len(enc.vals) # n
              \/ Len(enc.outBuff) < total
              \/ \E i \in 1..n : enc.vals[i] < 0
              \/ \E i \in 1..n :
                    enc.vals[i] > SumSeq(enc.fieldDefs[i].weights)

\* a value one above the sum of the weights was refused
C17_Witness ==
    /\ enc.pc = "done" /\ enc.res.err
    /\ Len(enc.vals) = Len(enc.fieldDefs)
    /\ Len(enc.outBuff) > enc.b.outSize
    /\ \A i \in 1..Len(enc.vals) : enc.vals[i] >= 0
    /\ \E i \in 1..Len(enc.vals) :
          enc.vals[i] = SumSeq(enc.fieldDefs[i].weights) + 1

\* a non-zero weight below the non-zero weight before it, or below 0
Unsorted(weights) ==
    \E j \in 1..Len(weights) :
        /\ weights[j] # 0
        /\ \/ weights[j] < 0
           \/ \E i \in 1..(j - 1) :
                 /\ weights[i] # 0
                 /\ \A k \in (i + 1)..(j - 1) : weights[k] = 0
                 /\ weights[j] < weights[i]

\* C18: newBCDEncoder fails if and only if in some field a non-zero weight
\* is smaller than the non-zero weight before it in that field (zero
\* weights between them are skipped, a negative weight always fails, equal
\* weights are accepted); on success outSize is the sum of len(weights).
C18_EncoderErrors ==
    enc.pc # "none" =>
        /\ (enc.pc = "failed") <=>
              \E i \in 1..Len(enc.fieldDefs) : Unsorted(enc.fieldDefs[i].weights)
        /\ enc.pc # "failed" =>
              enc.b.outSize
                = SumSeq([i \in 1..Len(enc.fieldDefs) |->
                            Len(enc.fieldDefs[i].weights)])

\* a field was refused for a weight below the one before a zero
C18_Witness ==
    /\ enc.pc = "failed"
    /\ Len(enc.fieldDefs) = 1
    /\ enc.fieldDefs[1].weights = <<2, 0, 1>>

\* C19: a successful encode leaves every element of outBuff at a zero
\* weight and every element at an index from the total number of weights
\* on as it was, and writes bit0 or bit1 at every non-zero weight.
C19_EncodeFrame ==
    (enc.pc = "done" /\ ~enc.res.err) =>
        /\ Len(enc.res.outBuff) = Len(enc.outBuff)
        /\ LET slots == Slots(enc.fieldDefs)
           IN  \A k \in 1..Len(enc.outBuff) :
                  IF \E t \in slots :
                        t[1] = k - 1 /\ enc.fieldDefs[t[2]].weights[t[3]] # 0
                  THEN enc.res.outBuff[k] \in {bit0, bit1}
                  ELSE enc.res.outBuff[k] = enc.outBuff[k]

\* a buffer longer than the schema was written, around a zero weight
C19_Witness ==
    /\ enc.pc = "done" /\ ~enc.res.err
    /\ Len(enc.fieldDefs) = 1
    /\ enc.fieldDefs[1].weights = <<1, 0, 2>>
    /\ enc.vals = <<3>>
    /\ enc.outBuff = Preseed(4)
    /\ enc.res.outBuff = <<bit1, bitMarker, bit1, bitMarker>>

(***************************************************************************)
(* NewMinute on its own.                                                   *)
(*                                                                         *)
(*   nm     pc "none" before the call, "done" after NewMinute(t, lsw,      *)
(*          dut1) returned res: its error and its Minute                   *)
(***************************************************************************)
\* DUT1 is tried from -DUT1Range to DUT1Range
DUT1Range == 100

\* the dates tried: the first and last days of years and months, leap days
InstantDates ==
    { <<y, md[1], md[2]>> :
        y \in {2016, 2017, 2099, 2100},
        md \in { <<1, 1>>, <<2, 28>>, <<3, 1>>, <<6, 30>>, <<8, 15>>,
                 <<10, 9>>, <<12, 31>> } }
    \cup { <<2016, 2, 29>> }

\* the arguments of NewMinute: every date at 10:04:30.5, every hour of one
\* day at four minutes, each with lsw 0 and 1 and DUT1 = 3; every DUT1 at
\* one instant; and four calls with an lsw that is neither 0 nor 1
MinuteArgs ==
    { <<MkTime(d[1], d[2], d[3], 10, 4, 30, 500), lsw, 3>> :
        d \in InstantDates, lsw \in {0, 1} }
    \cup { <<MkTime(2017, 8, 15, h, mi, 0, 0), lsw, 3>> :
             h \in 0..23, mi \in {0, 9, 30, 59}, lsw \in {0, 1} }
    \cup { <<MkTime(2017, 8, 15, 10, 4, 0, 0), 0, d>> :
             d \in (-DUT1Range)..DUT1Range }
    \* lsw outside {0, 1}, in and out of daylight saving time
    \cup { <<MkTime(2017, mo, 15, 10, 4, 0, 0), lsw, 3>> :
             mo \in {1, 8}, lsw \in {-1, 2} }

\* NewMinute(t, lsw, dut1)
BuildMinute(t, lsw, dut1) ==
    /\ nm.pc = "none"
    /\ nm' = [pc |-> "done", t |-> t, lsw |-> lsw, dut1 |-> dut1,
              res |-> NewMinute(t, lsw, dut1)]
    /\ UNCHANGED <<tas, rd, ret, feed, cur, meter, enc, live, ann, amp, osc, gen>>

NextMinute == \E a \in MinuteArgs : BuildMinute(a[1], a[2], a[3])

SpecMinute == Init /\ [][NextMinute]_vars

\* the sum of weight * (bit == bit1) over the bits from index first of the
\* code on
BitSum(bits, first, weights) ==
    SumSeq([j \in 1..Len(weights) |->
              IF bits[first + j] = bit1 THEN weights[j] ELSE 0])

\* the number of days of the year up to and including the day of t
DaysUpTo(t) ==
    Cardinality({ md \in (1..12) \X (1..31) :
                    /\ md[2] <= DaysInMonth(t.year, md[1])
                    /\ md[1] < t.month \/ (md[1] = t.month /\ md[2] <= t.day) })

C16_DUT1Bits ==
    (nm.pc = "done" /\ nm.lsw \in {0, 1}
       /\ nm.dut1 >= -100 /\ nm.dut1 <= 100) =>
        LET bits == nm.res.min.bits
            mag == IF nm.dut1 < 0 THEN 0 - nm.dut1 ELSE nm.dut1
        IN  /\ ~nm.res.err
            /\ BitSum(bits, 56, <<1, 2, 4>>) = IF mag < 7 THEN mag ELSE 7
            /\ bits[51] \in {bit0, bit1}
            /\ (bits[51] = bit1) <=> (nm.dut1 >= 0)

\* the Minute for DUT1 = -10.0 s was built
C16_Witness ==
    /\ nm.pc = "done" /\ ~nm.res.err
    /\ nm.dut1 = -100
    /\ nm.res.min.bits[51] = bit0
    /\ BitSum(nm.res.min.bits, 56, <<1, 2, 4>>) = 7

(***************************************************************************)
(* GetLiveMinutes: the goroutine that produces the live Minutes.           *)
(*                                                                         *)
(*   live   pc        where the goroutine stands: "getMinute" (before the  *)
(*                    first getCurrentMinute), "send" (at minutes <-       *)
(*                    minute), "select", "drain" (after close(minutes)),   *)
(*                    "done" (returned)                                    *)
(*          minute    the reading of the wall clock at which the Minute    *)
(*                    held in minute was built                             *)
(*          armed, left, fired   the timer t: running for another left, or *)
(*                    expired with its value waiting in t.C                *)
(*          dur       the duration t was last set to                       *)
(*          expiries  the expiries of t received since the last send       *)
(*          sent      whether a Minute has been sent                       *)
(*          closes    how often minutes has been closed                    *)
(*          sentClosed  whether a Minute was sent on the closed channel    *)
(*          stop, minutes   the two channels, "open" or "closed"           *)
(*          consumer  the reader of minutes: "busy" between receives,      *)
(*                    "receiving" at a receive, "gone" when it will not    *)
(*                    receive again, "ended" after it saw the close        *)
(*          got       the Minute last received                             *)
(*          now       the reading of the wall clock                        *)
(***************************************************************************)
\* the wall clock runs through MaxMinutes minutes in steps of a
\* TicksPerMinute-th of a minute, and is then set back to its first minute
MaxMinutes == 3
TicksPerMinute == 3

notLive == <<tas, rd, ret, feed, cur, meter, enc, nm, ann, amp, osc, gen>>

\* time.Minute
Minute == 60 * Second

\* the readings of the wall clock
ClockTicks == 0..(MaxMinutes * TicksPerMinute - 1)

\* how far into its minute reading n of the clock is
TickOffset(n) == ((n % TicksPerMinute) * Minute) \div TicksPerMinute

\* the time that passes between reading n of the clock and the next one
TickLength(n) ==
    IF n % TicksPerMinute = TicksPerMinute - 1
    THEN Minute - TickOffset(n)
    ELSE TickOffset(n + 1) - TickOffset(n)

\* time.Now() at reading n of the clock
ClockTime(n) ==
    MkTime(2017, 8, 15, 10, n \div TicksPerMinute,
           TickOffset(n) \div Second, TickOffset(n) % Second)

\* getCurrentMinute(): lsw 0, dut1 3
getCurrentMinute(n) == NewMinute(ClockTime(n), 0, 3)

\* what getCurrentMinute() returns at each reading of the clock
currentMinutes == [n \in ClockTicks |-> getCurrentMinute(n)]

\* whether getCurrentMinute() returns an error at each reading of the clock
currentMinuteErr == [n \in ClockTicks |-> currentMinutes[n].err]

\* t.Truncate(time.Minute), for a time in UTC
Truncate(t) == [t EXCEPT !.second = 0, !.nsec = 0]

\* u.Sub(t), for u on the day of t or on the day after
Sub(u, t) ==
    LET sinceMidnight(x) ==
            ((x.hour * 60 + x.minute) * 60 + x.second) * Second + x.nsec
    IN  IF u.day = t.day /\ u.month = t.month /\ u.year = t.year
        THEN sinceMidnight(u) - sinceMidnight(t)
        ELSE sinceMidnight(u) + 24 * 60 * Minute - sinceMidnight(t)

\* timeUntilNext with a period fixed at one minute (a seeded fault)
timeUntilNext_Ticker(minute) == Minute

\* timeUntilNext(minute)
timeUntilNext(minute) ==
    Sub(AddMinute(Truncate(minute.Time)), minute.Time)

\* the duration the timer is set to for the Minute built at each reading
untilNext == [n \in ClockTicks |-> timeUntilNext(currentMinutes[n].min)]

\* minute, err := getCurrentMinute(); t := time.NewTimer(timeUntilNext(minute))
ProdGetMinute ==
    /\ live.pc = "getMinute"
    /\ live' = IF currentMinuteErr[live.now]
               THEN [live EXCEPT !.minutes = "closed",
                                 !.closes = live.closes + 1, !.pc = "done"]
               ELSE [live EXCEPT !.minute = live.now, !.armed = TRUE,
                                 !.left = untilNext[live.now],
                                 !.dur = untilNext[live.now], !.pc = "send"]
    /\ UNCHANGED notLive

\* minutes <- minute: the channel has no buffer, the send waits for a receiver
ProdSend ==
    /\ live.pc = "send"
    /\ live.consumer = "receiving"
    /\ live' = [live EXCEPT !.consumer = "busy", !.got = live.minute,
                            !.sent = TRUE, !.expiries = 0,
                            !.sentClosed = live.sentClosed \/ live.minutes = "closed",
                            !.pc = "select"]
    /\ UNCHANGED notLive

\* case <-stop returning without close(minutes) (a seeded fault)
ProdSelectStop_NoClose ==
    /\ live.pc = "select"
    /\ live.stop = "closed"
    /\ live' = [live EXCEPT !.pc = "drain"]
    /\ UNCHANGED notLive

\* case <-stop: close(minutes)
ProdSelectStop ==
    /\ live.pc = "select"
    /\ live.stop = "closed"
    /\ live' = [live EXCEPT !.minutes = "closed",
                            !.closes = live.closes + 1, !.pc = "drain"]
    /\ UNCHANGED notLive

\* case <-t.C without the t.Reset (a seeded fault)
ProdSelectTimer_NoReset ==
    /\ live.pc = "select"
    /\ live.fired
    /\ live' = IF currentMinuteErr[live.now]
               THEN [live EXCEPT !.fired = FALSE, !.minutes = "closed",
                                 !.expiries = live.expiries + 1,
                                 !.closes = live.closes + 1, !.pc = "done"]
               ELSE [live EXCEPT !.fired = FALSE, !.minute = live.now,
                                 !.expiries = live.expiries + 1,
                                 !.dur = untilNext[live.now], !.pc = "send"]
    /\ UNCHANGED notLive

\* case <-t.C: minute, err = getCurrentMinute(); t.Reset(timeUntilNext(minute))
ProdSelectTimer ==
    /\ live.pc = "select"
    /\ live.fired
    /\ live' = IF currentMinuteErr[live.now]
               THEN [live EXCEPT !.fired = FALSE, !.minutes = "closed",
                                 !.expiries = live.expiries + 1,
                                 !.closes = live.closes + 1, !.pc = "done"]
               ELSE [live EXCEPT !.fired = FALSE, !.minute = live.now,
                                 !.expiries = live.expiries + 1,
                                 !.armed = TRUE,
                                 !.left = untilNext[live.now],
                                 !.dur = untilNext[live.now], !.pc = "send"]
    /\ UNCHANGED notLive

\* if !t.Stop() { <-t.C }; return
ProdDrain ==
    /\ live.pc = "drain"
    /\ live.armed \/ live.fired
    /\ live' = [live EXCEPT !.armed = FALSE, !.fired = FALSE, !.left = 0,
                            !.pc = "done"]
    /\ UNCHANGED notLive

Producer ==
    ProdGetMinute \/ ProdSend \/ ProdSelectStop \/ ProdSelectTimer \/ ProdDrain

\* the wall clock shows its next reading, and a running timer has that much
\* less to run
ClockTick ==
    /\ live' = [live EXCEPT
                  !.now = (live.now + 1) % (MaxMinutes * TicksPerMinute),
                  !.left = IF ~live.armed THEN live.left
                           ELSE IF live.left > TickLength(live.now)
                           THEN live.left - TickLength(live.now)
                           ELSE 0]
    /\ UNCHANGED notLive

\* the timer expires and puts its value in t.C
TimerFire ==
    /\ live.armed
    /\ live.left = 0
    /\ live' = [live EXCEPT !.armed = FALSE, !.fired = TRUE]
    /\ UNCHANGED notLive

\* the caller closes stop
CloseStop ==
    /\ live.stop = "open"
    /\ live' = [live EXCEPT !.stop = "closed"]
    /\ UNCHANGED notLive

\* the reader arrives at min, ok := <-s.minChan
ConsumerReceive ==
    /\ live.consumer = "busy"
    /\ live' = [live EXCEPT !.consumer = "receiving"]
    /\ UNCHANGED notLive

\* the receive returns ok == false from the closed channel
ConsumerSeesClosed ==
    /\ live.consumer = "receiving"
    /\ live.minutes = "closed"
    /\ live' = [live EXCEPT !.consumer = "ended"]
    /\ UNCHANGED notLive

\* the reader stops reading (playLive: s.Stop() before the deferred
\* close(stop))
ConsumerQuit ==
    /\ live.consumer = "busy"
    /\ live' = [live EXCEPT !.consumer = "gone"]
    /\ UNCHANGED notLive

NextLive ==
    \/ ProdGetMinute
    \/ ProdSend
    \/ ProdSelectStop
    \/ ProdSelectTimer
    \/ ProdDrain
    \/ ClockTick
    \/ TimerFire
    \/ CloseStop
    \/ ConsumerReceive
    \/ ConsumerSeesClosed
    \/ ConsumerQuit

\* The goroutine is scheduled whenever it can take a step, a select with a
\* ready stop case takes it sooner or later, time passes, the timer fires
\* when it is due, a reader that has not stopped comes back to its receive,
\* and a receive from the closed channel returns.
SpecLive ==
    /\ Init
    /\ [][NextLive]_vars
    /\ WF_vars(Producer)
    /\ SF_vars(ProdSelectStop)
    /\ WF_vars(ClockTick)
    /\ WF_vars(TimerFire)
    /\ WF_vars(ConsumerReceive)
    /\ WF_vars(ConsumerSeesClosed)

\* C20: once stop is closed, the goroutine of GetLiveMinutes eventually
\* closes the Minute channel and returns, whether or not the consumer is
\* still receiving.
C20_ProducerStops ==
    (live.stop = "closed") ~> (live.minutes = "closed" /\ live.pc = "done")

\* stop is closed while the goroutine waits at the send and the reader is gone
StoppedAtSend ==
    /\ live.stop = "closed" /\ live.pc = "send" /\ live.consumer = "gone"
    /\ live.minutes = "open"

\* as long as the reader does not stop receiving, the goroutine does close
\* the channel and return once stop is closed
ProducerStopsForReader ==
    ([](live.consumer # "gone")) =>
        ((live.stop = "closed")
            ~> (live.minutes = "closed" /\ live.pc = "done"))

(***************************************************************************)
(* The announcer on its own.                                               *)
(*                                                                         *)
(*   ann    wfa     the WaveFileAnnouncer                                  *)
(*          op      the last method called: "new", "SetTime", "Skip",      *)
(*                  "SetAmpDBFS" or "Read"                                 *)
(*          n       its argument n, or len(buff)                           *)
(*          before  the offset when it was called                          *)
(*          buff    the buffer a Read filled                               *)
(*          ret     what a Read returned                                   *)
(***************************************************************************)
\* Skip is called with 0..MaxSkip, Read with buffers of 0..MaxRead samples,
\* and no Skip takes the offset beyond MaxOffset
MaxSkip == 5
MaxRead == 3
MaxOffset == 12

notAnn == <<tas, rd, ret, feed, cur, meter, enc, nm, live, amp, osc, gen>>

\* the times announced
AnnTimes ==
    { MkTime(2017, 8, 15, 10, 4, 0, 0), MkTime(2017, 8, 15, 1, 1, 0, 0),
      MkTime(2017, 8, 15, 23, 59, 0, 0) }

\* wfa.SetTime(t)
AnnSetTime(t) ==
    /\ ann' = [wfa |-> SetTime(ann.wfa, t), op |-> "SetTime", n |-> 0,
               before |-> ann.wfa.offset, buff |-> <<>>,
               ret |-> [n |-> 0, err |-> "nil"]]
    /\ UNCHANGED notAnn

\* wfa.Skip(n)
AnnSkip(n) ==
    /\ ann.wfa.offset + n <= MaxOffset
    /\ ann' = [wfa |-> Skip(ann.wfa, n), op |-> "Skip", n |-> n,
               before |-> ann.wfa.offset, buff |-> <<>>,
               ret |-> [n |-> 0, err |-> "nil"]]
    /\ UNCHANGED notAnn

\* wfa.SetAmpDBFS(ampDBFS)
AnnSetAmp(ampDBFS) ==
    /\ ann' = [wfa |-> SetAmpDBFS(ann.wfa, ampDBFS), op |-> "SetAmpDBFS",
               n |-> 0, before |-> ann.wfa.offset, buff |-> <<>>,
               ret |-> [n |-> 0, err |-> "nil"]]
    /\ UNCHANGED notAnn

\* wfa.Read(buff) with len(buff) = n; it returns len(buff), nil
AnnRead(n) ==
    /\ LET r == WfaRead(ann.wfa, n)
       IN  ann' = [wfa |-> r.src, op |-> "Read", n |-> n,
                   before |-> ann.wfa.offset, buff |-> r.buff,
                   ret |-> [n |-> r.n, err |-> "nil"]]
    /\ UNCHANGED notAnn

NextAnn ==
    \/ \E t \in AnnTimes : AnnSetTime(t)
    \/ \E n \in 0..MaxSkip : AnnSkip(n)
    \/ \E a \in {announcerDBFS, -12} : AnnSetAmp(a)
    \/ \E n \in 0..MaxRead : AnnRead(n)

SpecAnn == Init /\ [][NextAnn]_vars

\* C21: after any sequence of SetTime, Skip(n >= 0) and Read, Read returns
\* len(buff) and no error; sample i is utterance[offset + i] * amplitude
\* while the running offset is below the length of the utterance and 0.0
\* otherwise; Skip(n) adds n to the offset, past the end too; with the
\* offset at or past the end a Read yields only 0.0 and leaves the offset
\* as it is; SetTime sets it to 0.
C21_AnnouncerRead ==
    LET utterance == ann.wfa.timeAnnouncement
        length == Len(utterance)
    IN  /\ ann.op = "Read" =>
             /\ ann.ret = [n |-> ann.n, err |-> "nil"]
             /\ Len(ann.buff) = ann.n
             /\ \A i \in 1..ann.n :
                  IF ann.before + (i - 1) < length
                  THEN /\ ann.buff[i].src = "wfa"
                       /\ ann.buff[i].smp = utterance[ann.before + i]
                       /\ ann.buff[i].amp = ann.wfa.amplitude
                  ELSE ann.buff[i] = [src |-> "zero"]
             /\ ann.before >= length => ann.wfa.offset = ann.before
             /\ ann.before < length =>
                  ann.wfa.offset = Min(ann.before + ann.n, length)
        /\ ann.op = "Skip" => ann.wfa.offset = ann.before + ann.n
        /\ ann.op = "SetTime" => ann.wfa.offset = 0

\* a Read that began inside the announcement ran past its end: its last
\* samples are silence and the offset stands at the end
C21_Witness ==
    /\ ann.op = "Read" /\ ann.n = MaxRead
    /\ Len(ann.wfa.timeAnnouncement) > 0
    /\ ann.before = Len(ann.wfa.timeAnnouncement) - 1
    /\ ann.buff[1].src = "wfa" /\ ann.buff[2] = [src |-> "zero"]
    /\ ann.wfa.offset = Len(ann.wfa.timeAnnouncement)

\* a Skip took the offset past the end and the Read after it gave silence
SkippedPastEnd ==
    /\ ann.op = "Read" /\ ann.n > 0
    /\ ann.before > Len(ann.wfa.timeAnnouncement)
    /\ ann.wfa.offset = ann.before

(***************************************************************************)
(* A source read by one goroutine while another sets its amplitude         *)
(* (AbstractSource, embedded in TimeAudioSource, Sine, WaveFileAnnouncer   *)
(* and SourceMux; each Read begins with amplitude := s.Amplitude()).       *)
(*                                                                         *)
(*   amp    pc         "none" before the source is made, "made" after      *)
(*          kind       the type of the source                              *)
(*          amplitude  the field amplitude                                 *)
(*          w, r       ampLock: held by a writer, held by the reader       *)
(*          rpc        the Read call: "idle", "rlock" (at RLock), "load",  *)
(*                     "runlock", "loop", and its locals amplitude (local),*)
(*                     i, len, and the gains of the samples written (buff) *)
(*          spc        the SetAmpDBFS call: "idle", "lock" (at Lock),      *)
(*                     "store", "unlock", and its argument (arg)           *)
(*          settled    history: the argument of the last SetAmpDBFS (or    *)
(*                     constructor) that returned                          *)
(*          cands      history: the amplitude when the Read was called and *)
(*                     the arguments of the SetAmpDBFS calls in progress   *)
(*                     between that call and the load                      *)
(***************************************************************************)
\* the levels set, in dBFS
AmpLevels == {-6, -12, -20}

\* the sources with an AbstractSource
SourceKinds == {"TimeAudioSource", "Sine", "WaveFileAnnouncer", "SourceMux"}

notAmp == <<tas, rd, ret, feed, cur, meter, enc, nm, live, ann, osc, gen>>

\* NewAbstractSource(ampDBFS), embedded in a source of the given kind
AmpNew(kind, ampDBFS) ==
    /\ amp.pc = "none"
    /\ amp' = [pc |-> "made", kind |-> kind,
               amplitude |-> dBFSToLinear(ampDBFS), w |-> FALSE, r |-> FALSE,
               rpc |-> "idle", local |-> 0, i |-> 0, len |-> 0, buff |-> <<>>,
               spc |-> "idle", arg |-> ampDBFS,
               settled |-> ampDBFS, cands |-> {}]
    /\ UNCHANGED notAmp

\* Read(buff) is called with len(buff) = n
AmpReadCall(n) ==
    /\ amp.pc = "made" /\ amp.rpc = "idle"
    /\ amp' = [amp EXCEPT !.rpc = "rlock", !.len = n, !.i = 0, !.buff = <<>>,
                          !.cands = {amp.amplitude}
                                    \cup IF amp.spc = "idle" THEN {}
                                         ELSE {dBFSToLinear(amp.arg)}]
    /\ UNCHANGED notAmp

\* Amplitude(): s.ampLock.RLock()
AmpRLock ==
    /\ amp.pc = "made" /\ amp.rpc = "rlock"
    /\ ~amp.w
    /\ amp' = [amp EXCEPT !.r = TRUE, !.rpc = "load"]
    /\ UNCHANGED notAmp

\* Amplitude(): amp := s.amplitude
AmpLoad ==
    /\ amp.pc = "made" /\ amp.rpc = "load"
    /\ amp' = [amp EXCEPT !.local = amp.amplitude, !.rpc = "runlock"]
    /\ UNCHANGED notAmp

\* Amplitude(): s.ampLock.RUnlock(); return amp
AmpRUnlock ==
    /\ amp.pc = "made" /\ amp.rpc = "runlock"
    /\ amp' = [amp EXCEPT !.r = FALSE, !.rpc = "loop"]
    /\ UNCHANGED notAmp

\* a sample scaled by the field amplitude, read again without the lock, in
\* place of the local (a seeded fault)
AmpReadSample_LoadsAgain ==
    /\ amp.pc = "made" /\ amp.rpc = "loop"
    /\ amp.i < amp.len
    /\ amp' = [amp EXCEPT !.i = @ + 1,
                          !.buff = Append(@, [kind |-> amp.kind, i |-> amp.i,
                                              amp |-> amp.amplitude])]
    /\ UNCHANGED notAmp

\* one pass of the loop of Read: buff[i] = ... * amplitude
AmpReadSample ==
    /\ amp.pc = "made" /\ amp.rpc = "loop"
    /\ amp.i < amp.len
    /\ amp' = [amp EXCEPT !.i = @ + 1,
                          !.buff = Append(@, [kind |-> amp.kind, i |-> amp.i,
                                              amp |-> amp.local])]
    /\ UNCHANGED notAmp

\* return len(buff), nil
AmpReadReturn ==
    /\ amp.pc = "made" /\ amp.rpc = "loop"
    /\ amp.i = amp.len
    /\ amp' = [amp EXCEPT !.rpc = "idle"]
    /\ UNCHANGED notAmp

\* SetAmpDBFS(ampDBFS) is called
AmpSetCall(ampDBFS) ==
    /\ amp.pc = "made" /\ amp.spc = "idle"
    /\ amp' = [amp EXCEPT !.spc = "lock", !.arg = ampDBFS,
                          !.cands = IF amp.rpc \in {"rlock", "load"}
                                    THEN @ \cup {dBFSToLinear(ampDBFS)}
                                    ELSE @]
    /\ UNCHANGED notAmp

\* s.ampLock.Lock()
AmpSetLock ==
    /\ amp.pc = "made" /\ amp.spc = "lock"
    /\ ~amp.w /\ ~amp.r
    /\ amp' = [amp EXCEPT !.w = TRUE, !.spc = "store"]
    /\ UNCHANGED notAmp

\* s.amplitude = dBFSToLinear(ampDBFS)
AmpSetStore ==
    /\ amp.pc = "made" /\ amp.spc = "store"
    /\ amp' = [amp EXCEPT !.amplitude = dBFSToLinear(amp.arg),
                          !.spc = "unlock"]
    /\ UNCHANGED notAmp

\* s.ampLock.Unlock(); SetAmpDBFS returns
AmpSetUnlock ==
    /\ amp.pc = "made" /\ amp.spc = "unlock"
    /\ amp' = [amp EXCEPT !.w = FALSE, !.spc = "idle", !.settled = amp.arg]
    /\ UNCHANGED notAmp

NextAmp ==
    \/ \E kind \in SourceKinds, a \in AmpLevels : AmpNew(kind, a)
    \/ \E n \in 0..MaxBuf : AmpReadCall(n)
    \/ AmpRLock
    \/ AmpLoad
    \/ AmpRUnlock
    \/ AmpReadSample
    \/ AmpReadReturn
    \/ \E a \in AmpLevels : AmpSetCall(a)
    \/ AmpSetLock
    \/ AmpSetStore
    \/ AmpSetUnlock

SpecAmp == Init /\ [][NextAmp]_vars

\* C22: when SetAmpDBFS runs concurrently with a Read, every sample of that
\* Read is scaled by one amplitude, the one loaded at the start of the
\* call, which is the old or the new value; a Read called after SetAmpDBFS
\* returned uses the value set.
C22_AmplitudeAtomic ==
    amp.pc = "made" =>
        \* while no SetAmpDBFS is in progress the field holds the last value set
        /\ amp.spc = "idle" => amp.amplitude = dBFSToLinear(amp.settled)
        /\ amp.rpc \in {"runlock", "loop"} =>
             /\ amp.local \in amp.cands
             /\ \A k \in 1..Len(amp.buff) : amp.buff[k].amp = amp.local
        /\ (amp.rpc = "idle" /\ Len(amp.buff) > 0) =>
             /\ amp.local \in amp.cands
             /\ \A k \in 1..Len(amp.buff) : amp.buff[k].amp = amp.local

\* a Read wrote all its samples with the old amplitude although SetAmpDBFS
\* stored the new one while the loop ran
C22_Witness ==
    /\ amp.pc = "made" /\ amp.rpc = "loop"
    /\ amp.i = MaxBuf /\ amp.len = MaxBuf
    /\ amp.spc = "idle"
    /\ amp.amplitude # amp.local
    /\ amp.cands = {amp.local}
    /\ \A k \in 1..Len(amp.buff) : amp.buff[k].amp = amp.local

(***************************************************************************)
(* Properties of the Read loop: generated seconds and the end of stream.   *)
(***************************************************************************)
\* C23: every sample Read emits at in-minute index p comes from the
\* scratch buffer as nextSecond(p div sampleRate) filled it for the current
\* Minute, and nextSecond is called exactly once for each second of a
\* Minute from which samples are emitted, wherever the buffers of Read end.
C23_GeneratedOncePerSecond ==
    /\ \A k \in 1..Len(rd.buff) :
         /\ rd.buff[k].sec = rd.buff[k].pos \div SampleRate
         /\ rd.buff[k].for = rd.buff[k].of
    /\ (cur.pulled /\ cur.emitted > 0) =>
         cur.gens = ((cur.start + cur.emitted - 1) \div SampleRate)
                      - (cur.start \div SampleRate) + 1

\* the same statement for the states before any receive has found the
\* channel closed
GeneratedOncePerSecondBeforeEOS == ~cur.eos => C23_GeneratedOncePerSecond

\* a Minute that started inside second 51 has had its samples of seconds
\* 51 and 52 emitted after two nextSecond calls
GeneratedAcrossBoundary ==
    /\ cur.pulled /\ ~cur.eos
    /\ cur.start % SampleRate # 0
    /\ cur.gens = 2
    /\ Len(rd.buff) = 2
    /\ rd.buff[1].sec + 1 = rd.buff[2].sec

\* C27: once a Read has returned the end-of-stream error, samplesRead
\* stands at the minute boundary and every later Read (of a buffer that
\* is not empty) writes no sample and returns 0 and that error again.
C27_StickyEndOfStream ==
    cur.eos =>
        /\ rd.pc = "idle" => tas.samplesRead = 0
        /\ (cur.afterEOS > 0 /\ rd.len > 0) =>
             /\ rd.buff = <<>>
             /\ rd.pc = "idle" =>
                  ret = [n |-> 0, err |-> "No more minutes provided"]

\* a Read after the end of stream has emitted again a sample of the last
\* second of the finished Minute
EmittedAgainAfterEOS ==
    /\ cur.eos /\ cur.afterEOS > 0
    /\ Len(rd.buff) > 0
    /\ rd.buff[1].pos = tas.samplesRead
    /\ rd.buff[1].of = ZeroTime /\ rd.buff[1].for # ZeroTime

(***************************************************************************)
(* The oscillator on its own.                                              *)
(*                                                                         *)
(*   osc    pc      "none" before NewSine, "made" after                    *)
(*          sine    the Sine                                               *)
(*          op      the last method called                                 *)
(*          buff    the buffer the last Read filled                        *)
(*          pendI, pendO   history: the SetIFade and SetOFade calls since  *)
(*                  the last Read (set, and the length in samples and the  *)
(*                  bottom of the last of them)                            *)
(*          usedI, usedO   history: pendI and pendO when the last Read     *)
(*                  was called                                             *)
(***************************************************************************)
\* the sample rate of the oscillator: with it a fade of 1/FadeUnit seconds
\* is one sample long
OscRate == 10000

notOsc == <<tas, rd, ret, feed, cur, meter, enc, nm, live, ann, amp, gen>>

NoFade == [set |-> FALSE, len |-> 0, bottom |-> LinearZero]

\* the fades the composer sets: (length, bottom in dBFS)
FadesSet ==
    { <<tickFade, -1000>>, <<codeFade, -1000>>, <<codeReduceFade, -30>> }

\* NewSine(440, 0, sampleRate)
OscNew ==
    /\ osc.pc = "none"
    /\ osc' = [pc |-> "made", sine |-> NewSine(440, 0, OscRate), op |-> "new",
               buff |-> <<>>, pendI |-> NoFade, pendO |-> NoFade,
               usedI |-> NoFade, usedO |-> NoFade]
    /\ UNCHANGED notOsc

\* s.SetIFade(iFade, iFadeBottom)
OscSetIFade(iFade, iFadeBottom) ==
    /\ osc.pc = "made"
    /\ LET sine == SetIFade(osc.sine, iFade, iFadeBottom)
       IN  osc' = [osc EXCEPT !.sine = sine, !.op = "SetIFade",
                              !.pendI = [set |-> TRUE, len |-> sine.iFade,
                                         bottom |-> sine.iFadeBottom]]
    /\ UNCHANGED notOsc

\* s.SetOFade(oFade, oFadeBottom)
OscSetOFade(oFade, oFadeBottom) ==
    /\ osc.pc = "made"
    /\ LET sine == SetOFade(osc.sine, oFade, oFadeBottom)
       IN  osc' = [osc EXCEPT !.sine = sine, !.op = "SetOFade",
                              !.pendO = [set |-> TRUE, len |-> sine.oFade,
                                         bottom |-> sine.oFadeBottom]]
    /\ UNCHANGED notOsc

\* s.SetAmpDBFS(ampDBFS)
OscSetAmp(ampDBFS) ==
    /\ osc.pc = "made"
    /\ osc' = [osc EXCEPT !.sine = SetAmpDBFS(osc.sine, ampDBFS),
                          !.op = "SetAmpDBFS"]
    /\ UNCHANGED notOsc

\* s.Read(buff) with len(buff) = n
OscRead(n) ==
    /\ osc.pc = "made"
    /\ LET r == SineRead(osc.sine, n)
       IN  osc' = [osc EXCEPT !.sine = r.src, !.op = "Read", !.buff = r.buff,
                              !.usedI = osc.pendI, !.usedO = osc.pendO,
                              !.pendI = NoFade, !.pendO = NoFade]
    /\ UNCHANGED notOsc

NextOsc ==
    \/ OscNew
    \/ \E f \in FadesSet : OscSetIFade(f[1], f[2])
    \/ \E f \in FadesSet : OscSetOFade(f[1], f[2])
    \/ \E a \in {-15, -30} : OscSetAmp(a)
    \/ \E n \in 0..MaxRead : OscRead(n)

SpecOsc == Init /\ [][NextOsc]_vars

\* Sine.Read: the fade-in lowers sample i
FadedIn(s) == s.i < s.iFade /\ s.amp > s.iFadeBottom

\* Sine.Read: the fade-out lowers sample i
FadedOut(s) == s.i >= s.len - s.oFade /\ s.amp > s.oFadeBottom

\* C24: after every Sine.Read the pending fade lengths and bottoms are
\* zero; a fade set by SetIFade or SetOFade shapes the next Read, and a
\* Read with no SetIFade (SetOFade) since the Read before it is produced
\* with no fade-in (fade-out).
C24_FadesOneShot ==
    (osc.pc = "made" /\ osc.op = "Read") =>
        /\ osc.sine.iFade = 0 /\ osc.sine.oFade = 0
        /\ osc.sine.iFadeBottom = LinearZero
        /\ osc.sine.oFadeBottom = LinearZero
        /\ \A k \in 1..Len(osc.buff) :
             LET s == osc.buff[k]
             IN  /\ s.iFade = osc.usedI.len /\ s.iFadeBottom = osc.usedI.bottom
                 /\ s.oFade = osc.usedO.len /\ s.oFadeBottom = osc.usedO.bottom
                 /\ ~osc.usedI.set => ~FadedIn(s)
                 /\ ~osc.usedO.set => ~FadedOut(s)

\* the low segment of the time code: after a Read with a fade-in, the
\* amplitude and a fade-out were set and the next Read was produced with
\* the fade-out and no fade-in
C24_Witness ==
    /\ osc.pc = "made" /\ osc.op = "Read"
    /\ Len(osc.buff) = MaxRead
    /\ osc.sine.amplitude = dBFSToLinear(-30)
    /\ ~osc.usedI.set
    /\ osc.usedO = [set |-> TRUE, len |-> (codeFade * OscRate) \div FadeUnit,
                    bottom |-> dBFSToLinear(-1000)]
    /\ \A k \in 1..Len(osc.buff) :
         ~FadedIn(osc.buff[k]) /\ FadedOut(osc.buff[k])

(***************************************************************************)
(* The errors of one generated second: nextSecond's handling of what its   *)
(* five layers return, and Read's handling of what nextSecond returns.     *)
(* With the sources of the composer (Sine.Read and WaveFileAnnouncer.Read  *)
(* return nil always) no layer returns an error; the error paths are       *)
(* followed here for every combination of results the layers' signatures   *)
(* allow.  An error is the sequence of its messages, outermost first; nil  *)
(* is the empty sequence.                                                  *)
(*                                                                         *)
(*   gen    pc      "none" before the pass of Read's loop, "done" after    *)
(*          errs    what each of the five layers returns when called       *)
(*          time, second, i   s.min's hour and minute, the second, and     *)
(*                  Read's loop index                                      *)
(*          nsErr   what nextSecond returned                               *)
(*          returned, ret   whether Read returned in this pass, and what   *)
(***************************************************************************)
notGen == <<tas, rd, ret, feed, cur, meter, enc, nm, live, ann, amp, osc>>

nil == <<>>

\* errors.Wrap(err, message)
Wrap(err, message) == <<message>> \o err

\* what the layers may return: nil, or an error of their source
LayerResults == [1..5 -> {nil, <<"read failed">>}]

\* nextSecond(second) from its first layer call on, errs[k] being what
\* layer k returns if it is called
nextSecondErr(errs) ==
    IF errs[1] # nil THEN Wrap(errs[1], "Cannot write minute mark")
    ELSE IF errs[2] # nil THEN Wrap(errs[2], "Cannot write tick")
    ELSE IF errs[3] # nil THEN Wrap(errs[3], "Cannot write tone")
    ELSE IF errs[4] # nil THEN Wrap(errs[4], "Cannot write time code")
    \* the error of announceNextMinute is wrapped and the result dropped
    ELSE nil

\* the pass i of the loop of Read at a second boundary: nextSecond, and on
\* an error return i, errors.Wrapf(err, "Cannot generate audio for %s:%d",
\* s.min.Format("15:04"), second)
GenSecond(time, second, i, errs) ==
    /\ gen.pc = "none"
    /\ LET err == nextSecondErr(errs)
       IN  gen' = [pc |-> "done", errs |-> errs, time |-> time,
                   second |-> second, i |-> i, nsErr |-> err,
                   returned |-> err # nil,
                   ret |-> IF err # nil
                           THEN [n |-> i,
                                 err |-> Wrap(err, <<"Cannot generate audio for",
                                                     time, second>>)]
                           ELSE [n |-> 0, err |-> nil]]
    /\ UNCHANGED notGen

NextGen ==
    \E time \in { <<10, 4>>, <<23, 59>> }, second \in {0, 29, 52, 59},
       i \in 0..(MaxBuf - 1), errs \in LayerResults :
        GenSecond(time, second, i, errs)

SpecGen == Init /\ [][NextGen]_vars

\* C26: if any of the five layers returns an error, nextSecond returns a
\* non-nil error and Read returns it wrapped with the hour:minute and the
\* second, together with the number of samples written so far.
C26_LayerErrorsReturned ==
    (gen.pc = "done" /\ \E k \in 1..5 : gen.errs[k] # nil) =>
        /\ gen.nsErr # nil
        /\ gen.returned
        /\ gen.ret = [n |-> gen.i,
                      err |-> Wrap(gen.nsErr, <<"Cannot generate audio for",
                                                gen.time, gen.second>>)]

\* the same statement for the first four layers
ErrorsReturnedBeforeAnnouncement ==
    (gen.pc = "done" /\ \E k \in 1..4 : gen.errs[k] # nil) =>
        /\ gen.nsErr # nil
        /\ gen.returned
        /\ gen.ret = [n |-> gen.i,
                      err |-> Wrap(gen.nsErr, <<"Cannot generate audio for",
                                                gen.time, gen.second>>)]

\* only the announcement failed, and Read went on
AnnouncementErrorDropped ==
    /\ gen.pc = "done"
    /\ \A k \in 1..4 : gen.errs[k] = nil
    /\ gen.errs[5] # nil
    /\ gen.nsErr = nil /\ ~gen.returned

(***************************************************************************)
(* Properties of encode when it returns an error.                          *)
(***************************************************************************)
\* C28: whenever encode returns an error, outBuff is left exactly as it
\* was before the call.
C28_AllOrNothing ==
    (enc.pc = "done" /\ enc.res.err) => enc.res.outBuff = enc.outBuff

\* C28 as amended: an error for the number of values or for the length of
\* the buffer leaves outBuff as it was; an error for a value leaves bit0 or
\* bit1 at the non-zero weights of the fields before the first refused
\* field and every other element as it was.
C28_ErrorLeavesPrefix ==
    (enc.pc = "done" /\ enc.res.err) =>
        LET n == Len(enc.fieldDefs)
            total == SumSeq([i \in 1..n |-> Len(enc.fieldDefs[i].weights)])
            slots == Slots(enc.fieldDefs)
        IN  IF Len(enc.vals) # n \/ Len(enc.outBuff) < total
            THEN enc.res.outBuff = enc.outBuff
            ELSE LET refused ==
                       { i \in 1..n :
                           \/ enc.vals[i] < 0
                           \/ enc.vals[i] > SumSeq(enc.fieldDefs[i].weights) }
                 IN  /\ Len(enc.res.outBuff) = Len(enc.outBuff)
                     /\ \A k \in 1..Len(enc.outBuff) :
                          IF \E t \in slots :
                                /\ t[1] = k - 1
                                /\ enc.fieldDefs[t[2]].weights[t[3]] # 0
                                /\ \A i \in refused : t[2] < i
                          THEN enc.res.outBuff[k] \in {bit0, bit1}
                          ELSE enc.res.outBuff[k] = enc.outBuff[k]

\* the second value was refused after the first field had been written
C28_Witness ==
    /\ enc.pc = "done" /\ enc.res.err
    /\ Len(enc.fieldDefs) = 2 /\ Len(enc.vals) = 2
    /\ enc.vals[2] > SumSeq(enc.fieldDefs[2].weights)
    /\ Len(enc.outBuff) >= 1
    /\ enc.res.outBuff[1] = bit1
    /\ enc.outBuff[1] = bitNone

\* a Minute that NewMinute returns with an error for lsw carries the
\* pre-seeded symbols and the DST bit (bits[2]) that encode wrote before it
\* refused lsw
MinuteWithErrorCarriesDST ==
    (nm.pc = "done" /\ nm.lsw \notin {0, 1}) =>
        /\ nm.res.err
        /\ \A k \in 0..60 :
             nm.res.min.bits[k + 1] =
                IF k = 0 THEN bitNone
                ELSE IF k \in markers THEN bitMarker
                ELSE IF k = 2 /\ isDSTAtMidnight(nm.t.year, nm.t.month, nm.t.day)
                THEN bit1
                ELSE bit0

\* NewMinute returned an error and a Minute with the DST bit set
MinuteWithErrorAndDST ==
    /\ nm.pc = "done" /\ nm.res.err
    /\ nm.res.min.bits[3] = bit1

(***************************************************************************)
(* Properties of the goroutine of GetLiveMinutes and its timer.            *)
(***************************************************************************)
\* C25: the first Minute is offered to the channel with no expiry of the
\* timer received; every later Minute is offered after exactly one expiry
\* received since the Minute before it was sent, and was built on that
\* expiry; and the timer is set from the instant of the Minute it was set
\* for, to a duration in (0, 60 s] that ends at the next top of the minute.
C25_OneExpiryPerMinute ==
    /\ live.pc = "send" =>
          live.expiries = (IF live.sent THEN 1 ELSE 0)
    /\ live.pc = "select" => live.expiries = 0
    /\ live.pc \in {"send", "select"} =>
          LET t == currentMinutes[live.minute].min.Time
          IN  /\ 0 < live.dur
              /\ live.dur <= 60 * Second
              /\ t.second * Second + t.nsec + live.dur = 60 * Second

\* a second Minute waits at the send; it was built part of the way into its
\* minute, in another minute than the one received before it
C25_Witness ==
    /\ live.pc = "send" /\ live.sent /\ live.expiries = 1
    /\ live.dur < 60 * Second
    /\ live.minute \div TicksPerMinute # live.got \div TicksPerMinute

\* C29: the goroutine closes the Minute channel at most once, sends no
\* Minute on it once it is closed, has nothing left to do after the close
\* but to drain the timer and return, and whenever it stands at the select
\* or at the drain the timer is either running or holds an expiry that has
\* not been received, so that the drain does not block.
C29_ClosedOnce ==
    /\ live.closes = (IF live.minutes = "closed" THEN 1 ELSE 0)
    /\ ~live.sentClosed
    /\ live.minutes = "closed" => live.pc \in {"drain", "done"}
    /\ live.pc = "done" => live.minutes = "closed"
    /\ live.pc \in {"select", "drain"} => (live.armed \/ live.fired)
    /\ ~(live.armed /\ live.fired)

\* stop was closed at a select after a second Minute had been sent: the
\* channel is closed and the goroutine drains a timer that has not expired
C29_Witness ==
    /\ live.pc = "drain" /\ live.stop = "closed" /\ live.minutes = "closed"
    /\ live.closes = 1 /\ live.armed /\ live.got # 0

\* the goroutine drains a timer whose expiry waits in t.C
DrainsExpiredTimer ==
    live.pc = "drain" /\ live.fired

\* the goroutine has returned after the drain
ReturnedAfterDrain ==
    /\ live.pc = "done" /\ live.closes = 1 /\ live.sent
    /\ ~live.armed /\ ~live.fired

\* once the channel is closed the goroutine returns
ReturnsAfterClose ==
    (live.minutes = "closed") ~> (live.pc = "done")

\* C30: a reader waiting at its receive from the Minute channel is
\* eventually released, by a Minute or by the close of the channel.
C30_ReaderReleased ==
    (live.consumer = "receiving") ~> (live.consumer # "receiving")

\* the reader waits at its receive for the next Minute while the goroutine
\* waits at the select for the timer, which has not expired
C30_Witness ==
    /\ live.consumer = "receiving" /\ live.pc = "select"
    /\ live.sent /\ live.armed /\ live.left > 0 /\ live.stop = "open"

\* a reader that keeps reading receives Minute after Minute
ReaderKeepsReceiving ==
    ([](live.consumer # "gone" /\ live.stop = "open")) =>
        []<><<ProdSend>>_vars

=============================================================================
